---------------------------- MODULE Spec2Model ----------------------------
(***************************************************************************)
(* A model of the path/schema engine of the JSON Schema Extractor and      *)
(* Formatter (package json_schema_extractor).                              *)
(*                                                                         *)
(* The core is a library of pure functions.  Each function is an operator  *)
(* computed the way the code computes it; each specification draws the     *)
(* arguments of a call from a bounded set (Init) and its actions apply     *)
(* the functions, recording the results.                                   *)
(*                                                                         *)
(* Encoding.  A Python str is a sequence of one-character strings.  A      *)
(* JSON value is a tagged record:                                          *)
(*   None/null [t |-> "null"]          number  [t |-> "num",  n |-> 1]     *)
(*   str       [t |-> "str", s |-> cs] list    [t |-> "list", l |-> seq]   *)
(*   dict      [t |-> "obj", o |-> sequence of <<key, value>> pairs, in    *)
(*              insertion order, keys unique]                              *)
(* Python's None is JSON null after json.load, so both are JNull.          *)
(***************************************************************************)
EXTENDS Integers, Sequences, FiniteSets, TLC

VARIABLES
    pc,     \* the position of the call sequence under examination
    inp,    \* the arguments of the calls (a record, one field per argument)
    out     \* the results of the calls made so far (a record)

vars == <<pc, inp, out>>

-----------------------------------------------------------------------------
(* Bounds of the model *)

MaxSegLen == 2      \* characters in a path segment of the codec inputs
MaxSegs == 2        \* segments in a path of the codec inputs
MaxListLen == 3     \* elements in a list of a document
MaxKeys == 2        \* entries in an object of the re-join documents
MaxRecs == 2        \* records (or groups) in a dataset of the merge inputs
MaxFields == 3      \* fields of a record of the record-merge inputs
MaxSelected == 2    \* fields selected for an export
MaxTreeKeys == 3    \* paths given to the tree builder
MaxItems == 2       \* items of the outer list of a mixed document
MaxLimit == 2       \* row limit given to the preview

-----------------------------------------------------------------------------
(* Strings *)

BS == "\\"          \* the backslash character
DOT == "."          \* the separator character

\* all sequences over S of length at most n
RECURSIVE SeqsUpTo(_, _)
SeqsUpTo(S, n) ==
    IF n = 0 THEN {<<>>}
    ELSE LET shorter == SeqsUpTo(S, n - 1)
         IN  shorter \cup {Append(s, x) : s \in shorter, x \in S}

\* str.replace(old, new) for a one-character old
RECURSIVE str_replace(_, _, _)
str_replace(s, old, new) ==
    IF s = <<>> THEN <<>>
    ELSE (IF Head(s) = old THEN new ELSE <<Head(s)>>) \o str_replace(Tail(s), old, new)

\* sep.join(strs)
RECURSIVE str_join(_, _)
str_join(sep, strs) ==
    IF strs = <<>> THEN <<>>
    ELSE IF Len(strs) = 1 THEN strs[1]
    ELSE strs[1] \o sep \o str_join(sep, Tail(strs))

-----------------------------------------------------------------------------
(* paths.py *)

\* a plausible slip: dots escaped first, so their backslashes are doubled
escape_path_segment_dots_first(segment) ==
    str_replace(str_replace(segment, DOT, <<BS, DOT>>), BS, <<BS, BS>>)

escape_path_segment(segment) ==
    str_replace(str_replace(segment, BS, <<BS, BS>>), DOT, <<BS, DOT>>)

\* the while loop of unescape_path_segment, from index i (1-based)
RECURSIVE unescape_from(_, _)
unescape_from(segment, i) ==
    IF i > Len(segment) THEN <<>>
    ELSE IF segment[i] = BS /\ i + 1 <= Len(segment)
         THEN <<segment[i + 1]>> \o unescape_from(segment, i + 2)
         ELSE <<segment[i]>> \o unescape_from(segment, i + 1)

unescape_path_segment(segment) == unescape_from(segment, 1)

\* the for loop of split_path, from index i, with the loop's locals
RECURSIVE split_loop(_, _, _, _, _)
split_loop(path, i, parts, buf, escaping) ==
    IF i > Len(path)
    THEN LET last == IF escaping THEN Append(buf, BS) ELSE buf
         IN  Append(parts, unescape_path_segment(last))
    ELSE LET ch == path[i] IN
         IF escaping
         THEN split_loop(path, i + 1, parts, buf \o <<BS, ch>>, FALSE)
         ELSE IF ch = BS
         THEN split_loop(path, i + 1, parts, buf, TRUE)
         ELSE IF ch = DOT
         THEN split_loop(path, i + 1, Append(parts, unescape_path_segment(buf)), <<>>, FALSE)
         ELSE split_loop(path, i + 1, parts, Append(buf, ch), FALSE)

\* a plausible slip: every '.' splits, escaped or not
split_path_ignoring_escapes(path) ==
    LET RECURSIVE cut(_, _, _)
        cut(i, parts, buf) ==
            IF i > Len(path) THEN Append(parts, unescape_path_segment(buf))
            ELSE IF path[i] = DOT
                 THEN cut(i + 1, Append(parts, unescape_path_segment(buf)), <<>>)
                 ELSE cut(i + 1, parts, Append(buf, path[i]))
    IN  SelectSeq(cut(1, <<>>, <<>>), LAMBDA p : p /= <<>>)

split_path(path) ==
    SelectSeq(split_loop(path, 1, <<>>, <<>>, FALSE), LAMBDA p : p /= <<>>)

-----------------------------------------------------------------------------
(* The path codec: escape every segment, join, split; and escape/unescape  *)
(* of every segment.                                                       *)

CodecChars == {"a", DOT, BS}
CodecSegments == SeqsUpTo(CodecChars, MaxSegLen)
CodecInputs == SeqsUpTo(CodecSegments, MaxSegs)

NoCodecOut == [escaped |-> <<>>, unescaped |-> <<>>, path |-> <<>>, parts |-> <<>>]

InitCodec ==
    /\ pc = "codec"
    /\ inp \in [segments : CodecInputs]
    /\ out = NoCodecOut

EscapeSegments ==
    /\ pc = "codec"
    /\ pc' = "escaped"
    /\ out' = [out EXCEPT !.escaped =
                  [i \in 1..Len(inp.segments) |-> escape_path_segment(inp.segments[i])]]
    /\ UNCHANGED inp

UnescapeSegments ==
    /\ pc = "escaped"
    /\ pc' = "unescaped"
    /\ out' = [out EXCEPT !.unescaped =
                  [i \in 1..Len(out.escaped) |-> unescape_path_segment(out.escaped[i])]]
    /\ UNCHANGED inp

JoinSegments ==
    /\ pc = "escaped"
    /\ pc' = "joined"
    /\ out' = [out EXCEPT !.path = str_join(<<DOT>>, out.escaped)]
    /\ UNCHANGED inp

SplitPath ==
    /\ pc = "joined"
    /\ pc' = "split"
    /\ out' = [out EXCEPT !.parts = split_path(out.path)]
    /\ UNCHANGED inp

NextCodec == EscapeSegments \/ UnescapeSegments \/ JoinSegments \/ SplitPath

SpecCodec == InitCodec /\ [][NextCodec]_vars

\* C1: unescaping an escaped segment gives the segment back, for every
\* string, with dots, backslashes, runs of backslashes, a trailing backslash.
C1_EscapeRoundTrip ==
    pc = "unescaped" => out.unescaped = inp.segments

C1_Witness ==
    /\ pc = "unescaped"
    /\ \E i \in 1..Len(inp.segments) :
          /\ Len(inp.segments[i]) >= 2
          /\ inp.segments[i][Len(inp.segments[i])] = BS
          /\ inp.segments[i][Len(inp.segments[i]) - 1] = BS
    /\ \E i \in 1..Len(inp.segments) : \E k \in 1..Len(inp.segments[i]) :
          inp.segments[i][k] = DOT
    /\ out.unescaped = inp.segments

\* C2 as stated: splitting the joined escaped segments gives back every
\* sequence of segments.
C2_SplitRecoversAll ==
    pc = "split" => out.parts = inp.segments

\* C2 amended: splitting the joined escaped segments gives back every
\* sequence of non-empty segments; in general it gives back the sequence
\* without its empty segments.
C2_SplitRecoversNonEmpty ==
    pc = "split" =>
        /\ out.parts = SelectSeq(inp.segments, LAMBDA s : s /= <<>>)
        /\ (\A i \in 1..Len(inp.segments) : inp.segments[i] /= <<>>)
              => out.parts = inp.segments

C2_Witness ==
    /\ pc = "split"
    /\ Len(inp.segments) = 2
    /\ \A i \in 1..2 : inp.segments[i] /= <<>>
    /\ \E k \in 1..Len(inp.segments[1]) : inp.segments[1][k] = DOT
    /\ \E k \in 1..Len(inp.segments[2]) : inp.segments[2][k] = BS
    /\ out.parts = inp.segments

-----------------------------------------------------------------------------
(* JSON values *)

JNull == [t |-> "null"]
JNum(n) == [t |-> "num", n |-> n]
JBool(b) == [t |-> "bool", b |-> b]
JStr(s) == [t |-> "str", s |-> s]
JList(l) == [t |-> "list", l |-> l]
JObj(o) == [t |-> "obj", o |-> o]

IsDict(v) == v.t = "obj"            \* isinstance(v, dict)
IsList(v) == v.t = "list"           \* isinstance(v, list)
IsNone(v) == v.t = "null"           \* v is None

\* key in d
dict_has(d, key) == \E i \in 1..Len(d.o) : d.o[i][1] = key

\* d.get(key), None when the key is missing
dict_get(d, key) ==
    IF dict_has(d, key)
    THEN d.o[CHOOSE i \in 1..Len(d.o) : d.o[i][1] = key][2]
    ELSE JNull

\* the concatenation of a sequence of sequences (list.extend in a loop)
RECURSIVE extend_all(_)
extend_all(seqs) ==
    IF seqs = <<>> THEN <<>> ELSE Head(seqs) \o extend_all(Tail(seqs))

-----------------------------------------------------------------------------
(* accessors.py: get_value_by_path *)

\* a plausible slip: a null found under the key is collected too
RECURSIVE collect_values_with_nulls(_, _)
collect_values_with_nulls(container, key) ==
    IF IsDict(container)
    THEN IF dict_has(container, key) THEN <<dict_get(container, key)>> ELSE <<>>
    ELSE IF IsList(container)
    THEN extend_all([n \in 1..Len(container.l) |->
                        collect_values_with_nulls(container.l[n], key)])
    ELSE <<>>

RECURSIVE collect_values(_, _)
collect_values(container, key) ==
    IF IsDict(container)
    THEN LET v == dict_get(container, key)
         IN  IF ~IsNone(v) THEN <<v>> ELSE <<>>
    ELSE IF IsList(container)
    THEN extend_all([n \in 1..Len(container.l) |-> collect_values(container.l[n], key)])
    ELSE <<>>

\* a plausible slip: the fallback prefers the longest joined key
rejoin_longest(val, keys, j, candidate) ==
    LET joined(m) == str_join(<<DOT>>, <<candidate>> \o SubSeq(keys, j, m))
        hits == {m \in j..Len(keys) : dict_has(val, joined(m))}
    IN  IF hits = {} THEN [matched |-> FALSE, j |-> 0, candidate |-> candidate]
        ELSE LET m == CHOOSE m \in hits : \A n \in hits : n <= m
             IN  [matched |-> TRUE, j |-> m, candidate |-> joined(m)]

\* the fallback loop "for j in range(i + 1, len(keys))", from index j
\* (1-based), with the candidate joined so far
RECURSIVE rejoin(_, _, _, _)
rejoin(val, keys, j, candidate) ==
    IF j > Len(keys) THEN [matched |-> FALSE, j |-> 0, candidate |-> candidate]
    ELSE LET c == candidate \o <<DOT>> \o keys[j]
         IN  IF dict_has(val, c)
             THEN [matched |-> TRUE, j |-> j, candidate |-> c]
             ELSE rejoin(val, keys, j + 1, c)

\* one iteration of "while i < len(keys)" (i is 1-based here): either the
\* function returns None (ret), or the walk goes on from (i, val)
path_step(keys, i, val) ==
    LET key == keys[i]
        fail == [ret |-> TRUE, i |-> i, val |-> JNull]
        \* the check "if val is None: return None" that ends the iteration
        goon(ni, nval) == IF IsNone(nval) THEN [ret |-> TRUE, i |-> ni, val |-> JNull]
                          ELSE [ret |-> FALSE, i |-> ni, val |-> nval]
    IN  IF IsDict(val)
        THEN IF dict_has(val, key)
             THEN goon(i + 1, dict_get(val, key))
             ELSE LET r == rejoin(val, keys, i + 1, key)
                  IN  IF r.matched THEN goon(r.j + 1, dict_get(val, r.candidate))
                      ELSE fail
        ELSE IF IsList(val)
        THEN LET results == collect_values(val, key)
             IN  IF results = <<>> THEN fail ELSE goon(i + 1, JList(results))
        ELSE fail

\* the while loop from (i, val) to the return value
RECURSIVE path_walk(_, _, _)
path_walk(keys, i, val) ==
    IF i > Len(keys) THEN val
    ELSE LET s == path_step(keys, i, val)
         IN  IF s.ret THEN s.val ELSE path_walk(keys, s.i, s.val)

get_value_by_path(data, path) == path_walk(split_path(path), 1, data)

-----------------------------------------------------------------------------
(* schema_utils.py: extract_all_keys *)

\* a plausible slip: object keys enter the path unescaped
RECURSIVE extract_all_keys_unescaped(_, _)
extract_all_keys_unescaped(data, parent_key) ==
    IF IsDict(data)
    THEN UNION {LET k == data.o[n][1]
                    v == data.o[n][2]
                    current_key == IF parent_key /= <<>>
                                   THEN parent_key \o <<DOT>> \o k ELSE k
                IN  IF IsDict(v) \/ IsList(v)
                    THEN extract_all_keys_unescaped(v, current_key)
                    ELSE {current_key} : n \in 1..Len(data.o)}
    ELSE IF IsList(data)
    THEN UNION {LET item == data.l[n]
                IN  IF IsDict(item) \/ IsList(item)
                    THEN extract_all_keys_unescaped(item, parent_key)
                    ELSE IF parent_key /= <<>> THEN {parent_key} ELSE {}
                : n \in 1..Len(data.l)}
    ELSE IF parent_key /= <<>> THEN {parent_key} ELSE {}

\* a plausible slip: only the first element of a list is walked
RECURSIVE extract_all_keys_first_item(_, _)
extract_all_keys_first_item(data, parent_key) ==
    IF IsDict(data)
    THEN UNION {LET k == data.o[n][1]
                    v == data.o[n][2]
                    escaped_k == escape_path_segment(k)
                    current_key == IF parent_key /= <<>>
                                   THEN parent_key \o <<DOT>> \o escaped_k
                                   ELSE escaped_k
                IN  IF IsDict(v) \/ IsList(v)
                    THEN extract_all_keys_first_item(v, current_key)
                    ELSE {current_key} : n \in 1..Len(data.o)}
    ELSE IF IsList(data)
    THEN UNION {LET item == data.l[n]
                IN  IF IsDict(item) \/ IsList(item)
                    THEN extract_all_keys_first_item(item, parent_key)
                    ELSE IF parent_key /= <<>> THEN {parent_key} ELSE {}
                : n \in (1..Len(data.l)) \cap {1}}
    ELSE IF parent_key /= <<>> THEN {parent_key} ELSE {}

RECURSIVE extract_all_keys(_, _)
extract_all_keys(data, parent_key) ==
    IF IsDict(data)
    THEN UNION {LET k == data.o[n][1]
                    v == data.o[n][2]
                    escaped_k == escape_path_segment(k)
                    current_key == IF parent_key /= <<>>
                                   THEN parent_key \o <<DOT>> \o escaped_k
                                   ELSE escaped_k
                IN  IF IsDict(v) \/ IsList(v)
                    THEN extract_all_keys(v, current_key)
                    ELSE {current_key} : n \in 1..Len(data.o)}
    ELSE IF IsList(data)
    THEN UNION {LET item == data.l[n]
                IN  IF IsDict(item) \/ IsList(item)
                    THEN extract_all_keys(item, parent_key)
                    ELSE IF parent_key /= <<>> THEN {parent_key} ELSE {}
                : n \in 1..Len(data.l)}
    ELSE IF parent_key /= <<>> THEN {parent_key} ELSE {}

-----------------------------------------------------------------------------
(* Schema discovery followed by value resolution: extract_all_keys on a    *)
(* document, then get_value_by_path on the document for an emitted path.   *)

\* the sequences of length at most n over S without a repeated key, where
\* an element is a <<key, value>> pair: the entries of a dict
RECURSIVE EntriesUpTo(_, _)
EntriesUpTo(S, n) ==
    IF n = 0 THEN {<<>>}
    ELSE LET shorter == EntriesUpTo(S, n - 1)
         IN  shorter \cup
             UNION {{Append(o, e) : e \in {x \in S : \A i \in 1..Len(o) : o[i][1] /= x[1]}}
                    : o \in shorter}

Scalars == {JNull, JNum(1), JStr(<<"x">>)}
ScalarLists == {JList(l) : l \in SeqsUpTo({JNum(1), JNull}, MaxListLen)}
FieldValues == Scalars \cup ScalarLists

KeyA == <<"a">>
KeyB == <<"b">>
KeyC == <<"c">>
KeyAdotB == <<"a", DOT, "b">>

\* documents with the nested field a -> b, the dotted key 'a.b', or both
DottedEntries ==
    {<<KeyA, JObj(<<<<KeyB, v>>>>)>> : v \in FieldValues}
        \cup {<<KeyAdotB, v>> : v \in FieldValues}
SchemaDocs == {JObj(o) : o \in EntriesUpTo(DottedEntries, 2) \ {<<>>}}

InitSchema ==
    /\ pc = "schema"
    /\ inp \in [data : SchemaDocs]
    /\ out = [keys |-> {}, path |-> <<>>, val |-> JNull]

ExtractAllKeys ==
    /\ pc = "schema"
    /\ pc' = "extracted"
    /\ out' = [out EXCEPT !.keys = extract_all_keys(inp.data, <<>>)]
    /\ UNCHANGED inp

GetValueByKey ==
    /\ pc = "extracted"
    /\ \E p \in out.keys :
          out' = [out EXCEPT !.path = p, !.val = get_value_by_path(inp.data, p)]
    /\ pc' = "resolved"
    /\ UNCHANGED inp

NextSchema == ExtractAllKeys \/ GetValueByKey

SpecSchema == InitSchema /\ [][NextSchema]_vars

\* the document has object key 'a' holding an object with key 'b', and the
\* literal key 'a.b' at the same level
HasNestedAndDotted(data) ==
    /\ IsDict(data)
    /\ \E i \in 1..Len(data.o) :
          /\ data.o[i][1] = KeyA
          /\ IsDict(data.o[i][2])
          /\ \E k \in 1..Len(data.o[i][2].o) : data.o[i][2].o[k][1] = KeyB
    /\ \E j \in 1..Len(data.o) : data.o[j][1] = KeyAdotB

NestedValue(data) ==
    LET a == data.o[CHOOSE i \in 1..Len(data.o) : data.o[i][1] = KeyA][2]
    IN  a.o[CHOOSE k \in 1..Len(a.o) : a.o[k][1] = KeyB][2]

DottedValue(data) ==
    data.o[CHOOSE j \in 1..Len(data.o) : data.o[j][1] = KeyAdotB][2]

NestedPath == <<"a", DOT, "b">>
DottedPath == <<"a", BS, DOT, "b">>

\* a scalar, null, or a list with at least one element, all scalars or null
IsFieldValue(v) ==
    \/ v.t \in {"null", "num", "str"}
    \/ /\ IsList(v)
       /\ v.l /= <<>>
       /\ \A n \in 1..Len(v.l) : v.l[n].t \in {"null", "num", "str"}

TwoPathsResolve ==
    /\ NestedPath \in out.keys
    /\ DottedPath \in out.keys
    /\ pc = "resolved" =>
          /\ out.path = NestedPath => out.val = NestedValue(inp.data)
          /\ out.path = DottedPath => out.val = DottedValue(inp.data)

\* C3 as stated: for a document with the nested field a -> b and the dotted
\* key 'a.b' at the same level, extract_all_keys emits two distinct paths
\* and get_value_by_path resolves each to its own value.
C3_DottedAndNested ==
    (pc \in {"extracted", "resolved"} /\ HasNestedAndDotted(inp.data))
        => TwoPathsResolve

\* C3 amended: the same, where each of the two fields holds a scalar, null
\* or a non-empty list of scalars (a field that holds an empty list has no
\* path in extract_all_keys).
C3_DottedAndNestedFields ==
    (/\ pc \in {"extracted", "resolved"}
     /\ HasNestedAndDotted(inp.data)
     /\ IsFieldValue(NestedValue(inp.data))
     /\ IsFieldValue(DottedValue(inp.data)))
        => TwoPathsResolve

C3_Witness ==
    /\ pc = "resolved"
    /\ HasNestedAndDotted(inp.data)
    /\ NestedValue(inp.data) = JNum(1)
    /\ DottedValue(inp.data) = JStr(<<"x">>)
    /\ out.keys = {NestedPath, DottedPath}
    /\ out.path = DottedPath
    /\ out.val = JStr(<<"x">>)

-----------------------------------------------------------------------------
(* get_value_by_path, one iteration of its while loop at a time.           *)

Obj1(k, v) == JObj(<<<<k, v>>>>)        \* the object {k: v}

\* elements of a list the walk broadcasts over: objects with and without
\* the key, an object holding null, a scalar, a list nested in the list
BroadcastElements ==
    { Obj1(KeyB, JNum(1)), Obj1(KeyB, JNum(2)), Obj1(KeyC, JNum(3)),
      Obj1(KeyB, JNull), JNum(5),
      JList(<<Obj1(KeyB, JNum(1)), JList(<<Obj1(KeyB, JNum(2))>>)>>) }
BroadcastLists == {JList(l) : l \in SeqsUpTo(BroadcastElements, MaxListLen)}
BroadcastDocs == BroadcastLists \cup {Obj1(KeyA, l) : l \in BroadcastLists}
BroadcastPaths == {KeyB, <<"a", DOT, "b">>, <<"a", DOT, "c">>}

\* objects whose keys hold unescaped dots
RejoinEntries ==
    {<<k, v>> : k \in {KeyA, KeyAdotB, <<"a", DOT, "b", DOT, "c">>, <<"b", DOT, "c">>},
                v \in {JNum(1), JNull, Obj1(KeyC, JNum(2)),
                       Obj1(<<"b", DOT, "c">>, JNum(3))}}
RejoinDocs == {JObj(o) : o \in EntriesUpTo(RejoinEntries, MaxKeys)}
RejoinPaths ==
    { <<"a", DOT, "b">>, <<"a", DOT, "b", DOT, "c">>, <<"a", BS, DOT, "b", DOT, "c">>,
      <<"a", DOT, "b", BS, DOT, "c">>, <<"a", DOT, "b", DOT, "b", DOT, "c">>,
      <<"b", DOT, "c">>, <<"a", DOT, "c">>, <<"a", DOT, "b", DOT, "c", DOT, "c">> }

InitResolve ==
    /\ pc = "call"
    /\ inp \in [data : BroadcastDocs, path : BroadcastPaths]
                  \cup [data : RejoinDocs, path : RejoinPaths]
    /\ out = [keys |-> <<>>, i |-> 1, val |-> JNull]

\* keys = split_path(path); val = data; i = 0
SplitKeys ==
    /\ pc = "call"
    /\ pc' = "walk"
    /\ out' = [keys |-> split_path(inp.path), i |-> 1, val |-> inp.data]
    /\ UNCHANGED inp

Hop ==
    LET s == path_step(out.keys, out.i, out.val)
    IN  /\ pc' = IF s.ret THEN "returned" ELSE "walk"
        /\ out' = [out EXCEPT !.i = s.i, !.val = s.val]
        /\ UNCHANGED inp

AtKey == pc = "walk" /\ out.i <= Len(out.keys)

HopDict == AtKey /\ IsDict(out.val) /\ Hop

HopList == AtKey /\ IsList(out.val) /\ Hop

HopScalar == AtKey /\ ~IsDict(out.val) /\ ~IsList(out.val) /\ Hop

\* the while loop ends: return val
ReturnVal ==
    /\ pc = "walk"
    /\ out.i > Len(out.keys)
    /\ pc' = "returned"
    /\ UNCHANGED <<inp, out>>

NextResolve == SplitKeys \/ HopDict \/ HopList \/ HopScalar \/ ReturnVal

SpecResolve == InitResolve /\ [][NextResolve]_vars

\* the non-null values under key of the elements of list that are objects
ElementValues(list, key) ==
    LET has(e) == IsDict(e) /\ dict_has(e, key) /\ ~IsNone(dict_get(e, key))
        elems == SelectSeq(list.l, has)
    IN  [n \in 1..Len(elems) |-> dict_get(elems[n], key)]

\* the objects of a list, those of the lists nested in it in their place
RECURSIVE ObjectsOf(_)
ObjectsOf(list) ==
    extend_all([n \in 1..Len(list.l) |->
                   IF IsDict(list.l[n]) THEN <<list.l[n]>>
                   ELSE IF IsList(list.l[n]) THEN ObjectsOf(list.l[n])
                   ELSE <<>>])

\* a hop at a list yields the list of the expected values, or None
ListHopYields(expected) ==
    IF expected = <<>>
    THEN pc' = "returned" /\ out'.val = JNull
    ELSE pc' = "walk" /\ out'.val = JList(expected) /\ out'.i = out.i + 1

\* C4 as stated: a hop at a list with segment k yields, in element order,
\* the values under k of the elements that have a non-null value for k, and
\* absent when there is none.
C4_BroadcastElements ==
    [][(AtKey /\ IsList(out.val))
          => ListHopYields(ElementValues(out.val, out.keys[out.i]))]_vars

\* C4 amended: a hop at a list with segment k yields, in order, the non-null
\* values under k of the list's objects, where the objects of a list nested
\* in the list count in its place (at any depth), and absent when there is
\* none.
C4_BroadcastFlattened ==
    [][(AtKey /\ IsList(out.val))
          => ListHopYields(ElementValues(JList(ObjectsOf(out.val)), out.keys[out.i]))]_vars

C4_Witness ==
    /\ pc = "returned"
    /\ inp.data = Obj1(KeyA, JList(<<Obj1(KeyB, JNum(1)), Obj1(KeyB, JNum(2)),
                                     Obj1(KeyC, JNum(3))>>))
    /\ inp.path = <<"a", DOT, "b">>
    /\ out.val = JList(<<JNum(1), JNum(2)>>)

\* C5: at an object without the current segment, the walk takes the
\* shortest run of following segments that, joined to it with '.', is a key
\* of the object, continues from that key's value after exactly the joined
\* segments, and returns absent when no run matches.
C5_RejoinShortest ==
    [][(AtKey /\ IsDict(out.val) /\ ~dict_has(out.val, out.keys[out.i])) =>
          LET joined(j) == str_join(<<DOT>>, SubSeq(out.keys, out.i, j))
              hits == {j \in (out.i + 1)..Len(out.keys) : dict_has(out.val, joined(j))}
          IN  IF hits = {}
              THEN pc' = "returned" /\ out'.val = JNull
              ELSE LET j == CHOOSE j \in hits : \A h \in hits : j <= h
                       v == dict_get(out.val, joined(j))
                   IN  /\ out'.val = v
                       /\ ~IsNone(v) => (pc' = "walk" /\ out'.i = j + 1
                                            /\ out'.keys = out.keys)]_vars

C5_Witness ==
    /\ pc = "returned"
    /\ inp.data = JObj(<< <<KeyAdotB, Obj1(KeyC, JNum(2))>>,
                          <<<<"a", DOT, "b", DOT, "c">>, JNum(1)>> >>)
    /\ inp.path = <<"a", DOT, "b", DOT, "c">>
    /\ out.val = JNum(2)

-----------------------------------------------------------------------------
(* records.py: the root and grouping resolver *)

ROOT == <<"(", "r", "o", "o", "t", ")">>        \* the sentinel '(root)'

\* root_path in (None, '', '(root)'); a root path is a str here
IsRootSentinel(root_path) == root_path \in {<<>>, ROOT}

\* a plausible slip: a missing document is wrapped like any other value
resolve_items_wrapping_none(data, root_path) ==
    IF IsRootSentinel(root_path)
    THEN IF IsList(data) THEN data.l ELSE <<data>>
    ELSE LET target == get_value_by_path(data, root_path)
         IN  IF IsList(target) THEN target.l
             ELSE IF ~IsNone(target) THEN <<target>>
             ELSE <<>>

resolve_items_by_root(data, root_path) ==
    IF IsNone(data) THEN <<>>
    ELSE IF IsRootSentinel(root_path)
    THEN IF IsList(data) THEN data.l ELSE <<data>>
    ELSE LET target == get_value_by_path(data, root_path)
         IN  IF IsList(target) THEN target.l
             ELSE IF ~IsNone(target) THEN <<target>>
             ELSE <<>>

\* the loop "for entry in items", from index n, with the loop's locals
RECURSIVE groups_loop(_, _, _, _)
groups_loop(items, n, grouped, groups) ==
    IF n > Len(items) THEN [groups |-> groups, grouped |-> grouped]
    ELSE LET entry == items[n]
         IN  IF IsList(entry)
             THEN groups_loop(items, n + 1, TRUE,
                              Append(groups, SelectSeq(entry.l, IsDict)))
             ELSE IF IsDict(entry)
             THEN groups_loop(items, n + 1, grouped, Append(groups, <<entry>>))
             ELSE groups_loop(items, n + 1, grouped, groups)

\* a plausible slip: the one-record groups of a flat list are not collapsed
resolve_groups_uncollapsed(data, root_path) ==
    groups_loop(resolve_items_by_root(data, root_path), 1, FALSE, <<>>)

resolve_groups_for_merge(data, root_path) ==
    LET r == groups_loop(resolve_items_by_root(data, root_path), 1, FALSE, <<>>)
    IN  IF ~r.grouped /\ r.groups /= <<>>
        THEN [groups |-> <<extend_all(r.groups)>>, grouped |-> r.grouped]
        ELSE r

-----------------------------------------------------------------------------
(* resolve_groups_for_merge on a document and a root path *)

KeyQ == <<"q">>
Rec1 == Obj1(KeyQ, JNum(1))
Rec2 == Obj1(KeyQ, JNum(2))

\* what a root can hold: records, scalars, lists of records and scalars
GroupItems ==
    { Rec1, Rec2, JNum(5), JList(<<>>), JList(<<Rec1>>), JList(<<Rec2, Rec1>>),
      JList(<<Rec1, JNum(5)>>) }
GroupTargets == {JList(l) : l \in SeqsUpTo(GroupItems, MaxListLen)} \cup {Rec1}
GroupDocs ==
    GroupTargets
        \cup {Obj1(KeyA, t) : t \in GroupTargets}
        \* a root path that broadcasts over a list: one inner list per element
        \cup {Obj1(KeyA, JList(<<Obj1(KeyB, t), Obj1(KeyB, JList(<<Rec2>>))>>))
                 : t \in GroupTargets}
GroupRoots == {ROOT, <<>>, KeyA, <<"a", DOT, "b">>}

InitGroups ==
    /\ pc = "groups"
    /\ inp \in [data : GroupDocs, root_path : GroupRoots]
    /\ out = [groups |-> <<>>, grouped |-> FALSE]

ResolveGroupsForMerge ==
    /\ pc = "groups"
    /\ pc' = "grouped"
    /\ out' = resolve_groups_for_merge(inp.data, inp.root_path)
    /\ UNCHANGED inp

NextGroups == ResolveGroupsForMerge

SpecGroups == InitGroups /\ [][NextGroups]_vars

\* the value the root resolves to
RootTarget ==
    IF IsRootSentinel(inp.root_path) THEN inp.data
    ELSE get_value_by_path(inp.data, inp.root_path)

AllItems(list, P(_)) == list.l /= <<>> /\ \A n \in 1..Len(list.l) : P(list.l[n])

\* C6: a root that resolves to a list of objects gives one group holding
\* those objects in order, grouped = false; a root that resolves to a list
\* of lists gives one group per inner list, in order, each holding the inner
\* list's objects in order, grouped = true; a root that resolves to a single
\* object gives one group with that one record, grouped = false.  (A list is
\* a list of objects, or of lists, when it has items and all are such.)
C6_GroupsByRootShape ==
    pc = "grouped" =>
        LET t == RootTarget
        IN  /\ (IsList(t) /\ AllItems(t, IsDict))
                  => out = [groups |-> <<t.l>>, grouped |-> FALSE]
            /\ (IsList(t) /\ AllItems(t, IsList))
                  => /\ out.grouped = TRUE
                     /\ Len(out.groups) = Len(t.l)
                     /\ \A n \in 1..Len(t.l) :
                           out.groups[n] = SelectSeq(t.l[n].l, IsDict)
            /\ IsDict(t)
                  => out = [groups |-> <<<<t>>>>, grouped |-> FALSE]

\* the grouped example of the specification, under a root path
C6_Witness ==
    /\ pc = "grouped"
    /\ inp.data = Obj1(KeyA, JList(<<JList(<<Rec1>>), JList(<<Rec2, Rec1>>)>>))
    /\ inp.root_path = KeyA
    /\ out = [groups |-> << <<Rec1>>, <<Rec2, Rec1>> >>, grouped |-> TRUE]

-----------------------------------------------------------------------------
(* json.dumps(value, sort_keys=True) and str.strip(), as used by           *)
(* normalize_key_component                                                 *)

QUOTE == "\""
SPACE == " "

\* the characters of the model in code point order
AsciiOrder ==
    << SPACE, QUOTE, "(", ")", ",", "-", DOT, "/", "0", "1", "2", "3", "4", "5", "6",
       "7", "8", "9", ":", "F", "J", "M", "N", "O", "S", "T", "[", BS, "]", "_", "a",
       "b", "c", "d", "e", "f", "g", "i", "j", "l", "m", "n", "o", "p", "q", "r", "s",
       "t", "u", "x", "y", "z", "{", "}" >>
CharCode(c) == CHOOSE n \in 1..Len(AsciiOrder) : AsciiOrder[n] = c

\* s1 < s2 for str
RECURSIVE str_less(_, _)
str_less(s1, s2) ==
    IF s2 = <<>> THEN FALSE
    ELSE IF s1 = <<>> THEN TRUE
    ELSE IF Head(s1) = Head(s2) THEN str_less(Tail(s1), Tail(s2))
    ELSE CharCode(Head(s1)) < CharCode(Head(s2))

\* str.strip(): leading and trailing whitespace removed
RECURSIVE str_lstrip(_)
str_lstrip(s) == IF s /= <<>> /\ Head(s) = SPACE THEN str_lstrip(Tail(s)) ELSE s
RECURSIVE str_rstrip(_)
str_rstrip(s) ==
    IF s /= <<>> /\ s[Len(s)] = SPACE THEN str_rstrip(SubSeq(s, 1, Len(s) - 1)) ELSE s
str_strip(s) == str_rstrip(str_lstrip(s))

\* str(n) for an int
RECURSIVE int_str(_)
int_str(n) ==
    IF n < 0 THEN <<"-">> \o int_str(0 - n)
    ELSE IF n < 10 THEN <<AsciiOrder[CharCode("0") + n]>>
    ELSE int_str(n \div 10) \o <<AsciiOrder[CharCode("0") + (n % 10)]>>

\* a JSON string literal: quotes and backslashes escaped
json_str(s) ==
    <<QUOTE>> \o str_replace(str_replace(s, BS, <<BS, BS>>), QUOTE, <<BS, QUOTE>>)
        \o <<QUOTE>>

\* a JSON boolean
json_bool(b) == IF b THEN <<"t", "r", "u", "e">> ELSE <<"f", "a", "l", "s", "e">>

\* the entries of a dict sorted by key (sort_keys=True), by insertion
RECURSIVE sorted_entries(_)
sorted_entries(o) ==
    IF o = <<>> THEN <<>>
    ELSE LET rest == sorted_entries(Tail(o))
             e == Head(o)
             before == SelectSeq(rest, LAMBDA x : str_less(x[1], e[1]))
             after == SelectSeq(rest, LAMBDA x : ~str_less(x[1], e[1]))
         IN  before \o <<e>> \o after

RECURSIVE json_dumps(_)
json_dumps(v) ==
    IF v.t = "null" THEN <<"n", "u", "l", "l">>
    ELSE IF v.t = "num" THEN int_str(v.n)
    ELSE IF v.t = "bool" THEN json_bool(v.b)
    ELSE IF v.t = "str" THEN json_str(v.s)
    ELSE IF v.t = "list"
    THEN <<"[">> \o str_join(<<",", SPACE>>, [n \in 1..Len(v.l) |-> json_dumps(v.l[n])])
               \o <<"]">>
    ELSE LET o == sorted_entries(v.o)
         IN  <<"{">> \o str_join(<<",", SPACE>>,
                           [n \in 1..Len(o) |->
                               json_str(o[n][1]) \o <<":", SPACE>> \o json_dumps(o[n][2])])
                   \o <<"}">>

-----------------------------------------------------------------------------
(* handlers_merge.py *)

normalize_key_component(value) ==
    IF value.t = "str" THEN JStr(str_strip(value.s))
    ELSE IF IsDict(value) \/ IsList(value) THEN JStr(json_dumps(value))
    ELSE value

build_join_key_tuple(item, join_paths) ==
    [n \in 1..Len(join_paths) |->
        normalize_key_component(get_value_by_path(item, join_paths[n]))]

\* d[key] = value
dict_set(d, key, value) ==
    IF dict_has(d, key)
    THEN [d EXCEPT !.o = [n \in 1..Len(d.o) |-> IF d.o[n][1] = key THEN <<key, value>> ELSE d.o[n]]]
    ELSE [d EXCEPT !.o = Append(d.o, <<key, value>>)]

\* a plausible slip: copy.copy, a new top node over the same children
deepcopy_shallow(v) ==
    IF IsDict(v) THEN JObj(v.o)
    ELSE IF IsList(v) THEN JList(v.l)
    ELSE v

\* copy.deepcopy: every object and list of the value built anew
RECURSIVE deepcopy(_)
deepcopy(v) ==
    IF IsDict(v) THEN JObj([n \in 1..Len(v.o) |-> <<v.o[n][1], deepcopy(v.o[n][2])>>])
    ELSE IF IsList(v) THEN JList([n \in 1..Len(v.l) |-> deepcopy(v.l[n])])
    ELSE v

\* the loop "for key, value in secondary_record.items()", from entry n
RECURSIVE fill_loop(_, _, _)
fill_loop(merged, items, n) ==
    IF n > Len(items) THEN merged
    ELSE LET key == items[n][1]
             value == items[n][2]
         IN  IF ~dict_has(merged, key) \/ IsNone(dict_get(merged, key))
             THEN fill_loop(dict_set(merged, key, deepcopy(value)), items, n + 1)
             ELSE fill_loop(merged, items, n + 1)

\* a plausible slip: the secondary record's values overwrite the primary's
build_merged_record_overwrite(primary_record, secondary_record) ==
    LET RECURSIVE put(_, _)
        put(merged, n) ==
            IF n > Len(secondary_record.o) THEN merged
            ELSE put(dict_set(merged, secondary_record.o[n][1], secondary_record.o[n][2]),
                     n + 1)
    IN  IF IsDict(primary_record) /\ IsDict(secondary_record)
        THEN put(primary_record, 1)
        ELSE JObj(<<>>)

build_merged_record(primary_record, secondary_record) ==
    LET merged == IF IsDict(primary_record) THEN deepcopy(primary_record)
                  ELSE IF IsDict(secondary_record) THEN deepcopy(secondary_record)
                  ELSE JObj(<<>>)
    IN  IF IsDict(secondary_record)
        THEN fill_loop(merged, secondary_record.o, 1)
        ELSE merged

\* the tuple as a key of a Python dict: keys that are equal and hash alike
\* are one key, and True == 1, False == 0
dict_key(key) ==
    [n \in 1..Len(key) |->
        IF key[n].t = "bool" THEN JNum(IF key[n].b THEN 1 ELSE 0) ELSE key[n]]

\* a plausible slip: the index keeps one record per key, the last
index_add_overwrite(index, key, idx) ==
    IF dict_key(key) \in DOMAIN index THEN [index EXCEPT ![dict_key(key)] = <<idx>>]
    ELSE index @@ (dict_key(key) :> <<idx>>)

\* a plausible slip: a key with a missing component is left out of the
\* index, as a null never equals a null in SQL
index_add_skipping_none(index, key, idx) ==
    IF \E n \in 1..Len(key) : IsNone(key[n]) THEN index
    ELSE IF dict_key(key) \in DOMAIN index THEN [index EXCEPT ![dict_key(key)] = Append(@, idx)]
    ELSE index @@ (dict_key(key) :> <<idx>>)

\* secondary_index.setdefault(key, []).append(idx)
index_add(index, key, idx) ==
    IF dict_key(key) \in DOMAIN index THEN [index EXCEPT ![dict_key(key)] = Append(@, idx)]
    ELSE index @@ (dict_key(key) :> <<idx>>)

\* the loop "for idx, item in enumerate(secondary_records)", from idx
RECURSIVE index_loop(_, _, _, _)
index_loop(secondary_records, join_keys, idx, index) ==
    IF idx > Len(secondary_records) THEN index
    ELSE index_loop(secondary_records, join_keys, idx + 1,
                    index_add(index, build_join_key_tuple(secondary_records[idx], join_keys),
                              idx))

\* the locals of the merge loop before its first iteration
merge_locals(primary_groups, primary_grouped) ==
    [ merged_rows |-> <<>>,
      merged_groups |-> IF primary_grouped
                        THEN [g \in 1..Len(primary_groups) |-> <<>>] ELSE <<>>,
      matched_secondary |-> {},
      match_pairs |-> 0,
      primary_only |-> 0 ]

\* the body of "for item in group" for one item of group group_idx
merge_item(acc, group_idx, item, primary_grouped, secondary_records, secondary_index, join_keys) ==
    LET key == dict_key(build_join_key_tuple(item, join_keys))
        matches == IF key \in DOMAIN secondary_index THEN secondary_index[key] ELSE <<>>
        merged == [m \in 1..Len(matches) |->
                      build_merged_record(item, secondary_records[matches[m]])]
    IN  IF matches /= <<>>
        THEN [acc EXCEPT
                !.merged_groups = IF primary_grouped
                                  THEN [@ EXCEPT ![group_idx] = @ \o merged] ELSE @,
                !.merged_rows = IF primary_grouped THEN @ ELSE @ \o merged,
                !.matched_secondary = @ \cup {matches[m] : m \in 1..Len(matches)},
                !.match_pairs = @ + Len(matches)]
        ELSE [acc EXCEPT !.primary_only = @ + 1]

\* the loops "for group_idx, group in enumerate(primary_groups)" and
\* "for item in group", from item n of group group_idx
RECURSIVE merge_loop(_, _, _, _, _, _, _, _)
merge_loop(acc, group_idx, n, primary_groups, primary_grouped, secondary_records, secondary_index, join_keys) ==
    IF group_idx > Len(primary_groups) THEN acc
    ELSE IF n > Len(primary_groups[group_idx])
    THEN merge_loop(acc, group_idx + 1, 1, primary_groups, primary_grouped,
                    secondary_records, secondary_index, join_keys)
    ELSE merge_loop(merge_item(acc, group_idx, primary_groups[group_idx][n],
                               primary_grouped, secondary_records, secondary_index,
                               join_keys),
                    group_idx, n + 1, primary_groups, primary_grouped,
                    secondary_records, secondary_index, join_keys)

\* a plausible slip: every matched pair counts as a matched secondary record
merge_stats_by_pairs(primary_records, secondary_records, acc) ==
    [ primary_total |-> Len(primary_records),
      secondary_total |-> Len(secondary_records),
      match_pairs |-> acc.match_pairs,
      primary_only |-> acc.primary_only,
      secondary_only |-> Len(secondary_records) - acc.match_pairs ]

merge_stats(primary_records, secondary_records, acc) ==
    [ primary_total |-> Len(primary_records),
      secondary_total |-> Len(secondary_records),
      match_pairs |-> acc.match_pairs,
      primary_only |-> acc.primary_only,
      secondary_only |-> Len(secondary_records) - Cardinality(acc.matched_secondary) ]

\* a plausible slip: groups without a merged record are left out
merged_payload_without_empty(acc, primary_grouped) ==
    IF primary_grouped
    THEN JList([g \in 1..Len(SelectSeq(acc.merged_groups, LAMBDA x : x /= <<>>)) |->
                   JList(SelectSeq(acc.merged_groups, LAMBDA x : x /= <<>>)[g])])
    ELSE JList(acc.merged_rows)

\* merged_payload = merged_groups if primary_grouped else merged_rows
merged_payload_of(acc, primary_grouped) ==
    IF primary_grouped
    THEN JList([g \in 1..Len(acc.merged_groups) |-> JList(acc.merged_groups[g])])
    ELSE JList(acc.merged_rows)

NoStats ==
    [primary_total |-> 0, secondary_total |-> 0, match_pairs |-> 0, primary_only |-> 0,
     secondary_only |-> 0]

\* raise ValueError(message)
Raised(message) == [raised |-> message, merged_payload |-> JNull, stats |-> NoStats]

\* perform_dataset_merge from the merge loop on: the loop, the stats and the
\* returned pair (raised = "")
merge_with_index(primary_groups, primary_grouped, primary_records, secondary_records, secondary_index, join_keys) ==
    LET acc == merge_loop(merge_locals(primary_groups, primary_grouped), 1, 1,
                          primary_groups, primary_grouped, secondary_records,
                          secondary_index, join_keys)
    IN  [ raised |-> "",
          merged_payload |-> merged_payload_of(acc, primary_grouped),
          stats |-> merge_stats(primary_records, secondary_records, acc) ]

\* perform_dataset_merge from the flattened records on: the two checks for
\* records, the secondary index, the merge
merge_records(primary_groups, primary_grouped, primary_records, secondary_records, join_keys) ==
    IF primary_records = <<>>
    THEN Raised("Primary dataset has no iterable items for the selected root path.")
    ELSE IF secondary_records = <<>>
    THEN Raised("Secondary dataset has no iterable items for the selected root path.")
    ELSE merge_with_index(primary_groups, primary_grouped, primary_records,
                          secondary_records,
                          index_loop(secondary_records, join_keys, 1, <<>>), join_keys)

\* perform_dataset_merge from the resolved groups on; primary and secondary
\* are the results of resolve_groups_for_merge
merge_groups(primary, secondary, join_keys) ==
    merge_records(primary.groups, primary.grouped, extend_all(primary.groups),
                  extend_all(secondary.groups), join_keys)

\* perform_dataset_merge once the arguments are known to be given
merge_with_keys(primary_data, secondary_data, primary_root, secondary_root, join_keys) ==
    IF join_keys = <<>>
    THEN Raised("Select valid join keys.")
    ELSE merge_groups(resolve_groups_for_merge(primary_data, primary_root),
                      resolve_groups_for_merge(secondary_data, secondary_root),
                      join_keys)

\* the result of perform_dataset_merge: the ValueError it raises, or the
\* pair (merged_payload, stats) it returns (raised = "")
perform_dataset_merge(primary_data, secondary_data, primary_root, secondary_root, join_keys) ==
    IF IsNone(primary_data) \/ IsNone(secondary_data)
    THEN Raised("Upload both datasets before merging.")
    ELSE IF join_keys = <<>>
    THEN Raised("Select at least one join key.")
    ELSE merge_with_keys(primary_data, secondary_data, primary_root, secondary_root,
                         SelectSeq(join_keys, LAMBDA k : k /= <<>>))

-----------------------------------------------------------------------------
(* perform_dataset_merge on two datasets, their roots and the join keys    *)

KeyId == <<"i", "d">>
KeyX == <<"x">>
KeyY == <<"y">>

\* primary records: with an id, with another id, without the join field
PrimaryRecs ==
    { JObj(<< <<KeyId, JNum(1)>>, <<KeyX, JStr(<<"a">>)>> >>),
      JObj(<< <<KeyId, JNum(2)>>, <<KeyX, JStr(<<"b">>)>> >>),
      JObj(<< <<KeyX, JStr(<<"a">>)>> >>) }

\* secondary records: two with the same id (one of them with a padded x),
\* one with an id no primary record has
SecondaryRecs ==
    { JObj(<< <<KeyId, JNum(1)>>, <<KeyY, JStr(<<"p">>)>> >>),
      JObj(<< <<KeyId, JNum(1)>>, <<KeyX, JStr(<<SPACE, "a">>)>>, <<KeyY, JStr(<<"r">>)>> >>),
      JObj(<< <<KeyId, JNum(3)>>, <<KeyY, JStr(<<"q">>)>> >>) }

PrimaryGroups ==
    { JList(<<>>),
      JList(<<JObj(<< <<KeyId, JNum(1)>>, <<KeyX, JStr(<<"a">>)>> >>)>>),
      JList(<<JObj(<< <<KeyId, JNum(2)>>, <<KeyX, JStr(<<"b">>)>> >>),
              JObj(<< <<KeyId, JNum(1)>>, <<KeyX, JStr(<<"a">>)>> >>)>>),
      JList(<<JObj(<< <<KeyId, JNum(2)>>, <<KeyX, JStr(<<"b">>)>> >>),
              JObj(<< <<KeyX, JStr(<<"a">>)>> >>)>>) }

\* flat datasets, and grouped ones (lists of lists)
PrimaryTargets ==
    {JList(l) : l \in SeqsUpTo(PrimaryRecs, MaxRecs)}
        \cup {JList(l) : l \in SeqsUpTo(PrimaryGroups, MaxRecs) \ {<<>>}}
SecondaryTargets == {JList(l) : l \in SeqsUpTo(SecondaryRecs, MaxRecs)} \cup {JNull}

\* the whole document as the root, a root path to the dataset, a root path
\* that addresses nothing
PrimaryInputs ==
    {[data |-> t, root |-> ROOT] : t \in PrimaryTargets}
        \cup {[data |-> Obj1(KeyA, t), root |-> KeyA] : t \in PrimaryTargets}
        \cup {[data |-> JList(<<r>>), root |-> KeyA] : r \in PrimaryRecs}

JoinKeyLists == {<<KeyId>>, <<KeyId, KeyX>>, <<<<>>, KeyId>>, <<<<>>>>, <<>>}

InitMerge ==
    /\ pc = "merge"
    /\ inp \in {[primary_data |-> p.data, primary_root |-> p.root,
                 secondary_data |-> s, secondary_root |-> ROOT, join_keys |-> j]
                   : p \in PrimaryInputs, s \in SecondaryTargets, j \in JoinKeyLists}
    /\ out = Raised("")

PerformDatasetMerge ==
    /\ pc = "merge"
    /\ pc' = "merged"
    /\ out' = perform_dataset_merge(inp.primary_data, inp.secondary_data,
                                    inp.primary_root, inp.secondary_root, inp.join_keys)
    /\ UNCHANGED inp

NextMerge == PerformDatasetMerge

SpecMerge == InitMerge /\ [][NextMerge]_vars

\* the merge returned its pair (merged_payload, stats)
Merged == pc = "merged" /\ out.raised = ""

\* the record streams of the two sides, and the primary side's groups
PrimaryIn == resolve_groups_for_merge(inp.primary_data, inp.primary_root)
PrimaryStream == extend_all(PrimaryIn.groups)
SecondaryStream ==
    extend_all(resolve_groups_for_merge(inp.secondary_data, inp.secondary_root).groups)

\* the join paths in use: the non-empty ones
JoinPaths == SelectSeq(inp.join_keys, LAMBDA k : k /= <<>>)

\* the join-key tuples of a sequence of records
KeysOf(records) ==
    [n \in 1..Len(records) |-> build_join_key_tuple(records[n], JoinPaths)]

\* the positions of the secondary records whose join-key tuple is key, in
\* increasing order
MatchesOf(key, secondary_keys) ==
    SelectSeq([i \in 1..Len(secondary_keys) |-> i], LAMBDA i : secondary_keys[i] = key)

\* the inner join of a sequence of primary records with the secondary side:
\* for every primary record in order, one merged record per matching
\* secondary record, in position order
InnerJoin(records) ==
    LET secondary == SecondaryStream
        secondary_keys == KeysOf(secondary)
        keys == KeysOf(records)
        merged_for(n) ==
            LET matches == MatchesOf(keys[n], secondary_keys)
            IN  [m \in 1..Len(matches) |->
                    build_merged_record(records[n], secondary[matches[m]])]
    IN  extend_all([n \in 1..Len(records) |-> merged_for(n)])

\* the merged records of the payload, group after group when it is grouped
PayloadRows ==
    IF PrimaryIn.grouped
    THEN extend_all([g \in 1..Len(out.merged_payload.l) |-> out.merged_payload.l[g].l])
    ELSE out.merged_payload.l

\* C7: the payload is the inner join: one merged record per pair of a
\* primary and a secondary record with equal join-key tuples, nothing for a
\* primary record without a match, in primary order and then in the order
\* of the matching secondary records' positions.
C7_InnerJoin ==
    Merged => PayloadRows = InnerJoin(PrimaryStream)

C7_Witness ==
    /\ Merged
    /\ LET keys == KeysOf(PrimaryStream)
           secondary_keys == KeysOf(SecondaryStream)
       IN  /\ \E n \in 1..Len(keys) : Len(MatchesOf(keys[n], secondary_keys)) = 2
           /\ \E n \in 1..Len(keys) : Len(MatchesOf(keys[n], secondary_keys)) = 0
    /\ Len(PayloadRows) = 2

\* C8: the statistics count the records of the two sides, the merged
\* records of the payload, the primary records without a match and the
\* secondary records that took part in no match.
C8_Stats ==
    Merged =>
        LET keys == KeysOf(PrimaryStream)
            secondary_keys == KeysOf(SecondaryStream)
            unmatched == {n \in 1..Len(keys) : \A i \in 1..Len(secondary_keys) :
                                                  secondary_keys[i] /= keys[n]}
            taking_part == {i \in 1..Len(secondary_keys) : \E n \in 1..Len(keys) :
                                                              keys[n] = secondary_keys[i]}
        IN  /\ out.stats.primary_total = Len(keys)
            /\ out.stats.secondary_total = Len(secondary_keys)
            /\ out.stats.match_pairs = Len(PayloadRows)
            /\ out.stats.primary_only = Cardinality(unmatched)
            /\ out.stats.secondary_only = Len(secondary_keys) - Cardinality(taking_part)
            /\ out.stats.primary_only \in 0..out.stats.primary_total
            /\ out.stats.secondary_only \in 0..out.stats.secondary_total

\* a secondary record matched by two primary records, one secondary record
\* matched by none
C8_Witness ==
    /\ Merged
    /\ out.stats = [primary_total |-> 2, secondary_total |-> 2, match_pairs |-> 2,
                    primary_only |-> 0, secondary_only |-> 1]

\* the value the primary root resolves to
PrimaryTarget ==
    IF IsRootSentinel(inp.primary_root) THEN inp.primary_data
    ELSE get_value_by_path(inp.primary_data, inp.primary_root)

\* C9: when the primary root is a list of lists, the payload has one group
\* per inner list, in order, and group g holds the merged records of the
\* records of inner list g, also when there is none.
C9_GroupsPreserved ==
    (Merged /\ IsList(PrimaryTarget) /\ AllItems(PrimaryTarget, IsList)) =>
        /\ Len(out.merged_payload.l) = Len(PrimaryTarget.l)
        /\ \A g \in 1..Len(PrimaryTarget.l) :
              out.merged_payload.l[g] =
                  JList(InnerJoin(SelectSeq(PrimaryTarget.l[g].l, IsDict)))

C9_Witness ==
    /\ Merged
    /\ IsList(PrimaryTarget) /\ AllItems(PrimaryTarget, IsList)
    /\ Len(out.merged_payload.l) = 2
    /\ PrimaryTarget.l[1].l /= <<>>
    /\ out.merged_payload.l[1] = JList(<<>>)
    /\ out.merged_payload.l[2] /= JList(<<>>)

-----------------------------------------------------------------------------
(* build_merged_record on a primary and a secondary record                 *)

RecordKeys == <<KeyA, KeyB, KeyC, KeyQ>>
RecordValues == {JNull, JNum(1), JNum(2)}

\* the entry sequences with keys keys[n..last], in that order, each key
\* present (with some value) or missing
RECURSIVE FieldsFrom(_, _, _)
FieldsFrom(keys, n, last) ==
    IF n > last THEN {<<>>}
    ELSE LET rest == FieldsFrom(keys, n + 1, last)
         IN  rest \cup {<<<<keys[n], v>>>> \o o : v \in RecordValues, o \in rest}

Reversed(seq) == [n \in 1..Len(seq) |-> seq[Len(seq) + 1 - n]]

\* the records: the primary ones list their fields in one order, the
\* secondary ones in the opposite order
PrimaryRecords == {JObj(o) : o \in FieldsFrom(RecordKeys, 1, MaxFields)}
SecondaryRecords ==
    {JObj(o) : o \in FieldsFrom(Reversed(SubSeq(RecordKeys, 1, MaxFields)), 1, MaxFields)}

InitRecord ==
    /\ pc = "record"
    /\ inp \in [primary_record : PrimaryRecords, secondary_record : SecondaryRecords]
    /\ out = [merged |-> JNull]

BuildMergedRecord ==
    /\ pc = "record"
    /\ pc' = "built"
    /\ out' = [merged |-> build_merged_record(inp.primary_record, inp.secondary_record)]
    /\ UNCHANGED inp

NextRecord == BuildMergedRecord

SpecRecord == InitRecord /\ [][NextRecord]_vars

\* the top-level keys of an object
KeySet(obj) == {obj.o[n][1] : n \in 1..Len(obj.o)}

\* C10: the merged record has the keys of both records; a key with a
\* non-null value in primary holds primary's value, and a key missing or
\* null in primary and present in secondary holds secondary's value.
C10_PrimaryWins ==
    pc = "built" =>
        LET p == inp.primary_record
            s == inp.secondary_record
            m == out.merged
        IN  /\ IsDict(m)
            /\ KeySet(m) = KeySet(p) \cup KeySet(s)
            /\ Len(m.o) = Cardinality(KeySet(m))
            /\ \A k \in KeySet(p) :
                  ~IsNone(dict_get(p, k)) => dict_get(m, k) = dict_get(p, k)
            /\ \A k \in KeySet(s) :
                  (k \notin KeySet(p) \/ IsNone(dict_get(p, k)))
                      => dict_get(m, k) = dict_get(s, k)

\* primary wins on a, its null b is filled, the missing c is added
C10_Witness ==
    /\ pc = "built"
    /\ inp.primary_record = JObj(<< <<KeyA, JNum(1)>>, <<KeyB, JNull>> >>)
    /\ inp.secondary_record =
          JObj(<< <<KeyC, JNum(2)>>, <<KeyB, JNum(2)>>, <<KeyA, JNum(2)>> >>)
    /\ out.merged = JObj(<< <<KeyA, JNum(1)>>, <<KeyB, JNum(2)>>, <<KeyC, JNum(2)>> >>)

-----------------------------------------------------------------------------
(* accessors.py: set_value_by_path; handlers_merge.py: the output container *)

\* the loop over parts[:-1] and the final assignment, on the object current;
\* parts is not empty
RECURSIVE set_parts(_, _, _)
set_parts(current, parts, value) ==
    IF Len(parts) = 1 THEN dict_set(current, parts[1], value)
    ELSE LET nxt == dict_get(current, parts[1])
         IN  dict_set(current, parts[1],
                      set_parts(IF IsDict(nxt) THEN nxt ELSE JObj(<<>>), Tail(parts), value))

\* a call that returned value, a call that raised the exception named
Returned(value) == [raised |-> "", value |-> value]
Throws(exception) == [raised |-> exception, value |-> JNull]

\* set_value_by_path(data, path, value); parts[-1] of an empty list raises
set_value_by_path(data, path, value) ==
    IF IsRootSentinel(path) THEN Returned(value)
    ELSE IF ~IsDict(data) THEN Returned(value)
    ELSE IF split_path(path) = <<>> THEN Throws("IndexError")
    ELSE Returned(set_parts(data, split_path(path), value))

build_merged_output_container(primary_data, primary_root, merged_items) ==
    IF IsRootSentinel(primary_root) THEN Returned(merged_items)
    ELSE IF IsDict(primary_data)
    THEN set_value_by_path(deepcopy(primary_data), primary_root, merged_items)
    ELSE Returned(merged_items)

-----------------------------------------------------------------------------
(* handlers_merge.py: merge_datasets_handler *)

\* root or '(root)'
root_or_sentinel(root) == IF root = <<>> THEN ROOT ELSE root

\* join_keys or [], and a single str wrapped in a list; the handler receives
\* None, a str or a list of strs
handler_join_keys(join_keys) ==
    IF IsNone(join_keys) THEN <<>>
    ELSE IF join_keys.t = "str"
    THEN (IF join_keys.s = <<>> THEN <<>> ELSE <<join_keys.s>>)
    ELSE [n \in 1..Len(join_keys.l) |-> join_keys.l[n].s]

\* str.lower() on the letters the file names are made of
UpperLetters == <<"J", "S", "O", "N", "M", "C", "V">>
LowerLetters == <<"j", "s", "o", "n", "m", "c", "v">>
char_lower(c) ==
    IF \E n \in 1..Len(UpperLetters) : UpperLetters[n] = c
    THEN LowerLetters[CHOOSE n \in 1..Len(UpperLetters) : UpperLetters[n] = c]
    ELSE c
str_lower(s) == [n \in 1..Len(s) |-> char_lower(s[n])]

str_endswith(s, suffix) ==
    /\ Len(s) >= Len(suffix)
    /\ SubSeq(s, Len(s) - Len(suffix) + 1, Len(s)) = suffix

DotJson == <<DOT, "j", "s", "o", "n">>
MergedPrefix == <<"m", "e", "r", "g", "e", "d", "_">>
TempDir == <<"/", "t", "m", "p">>          \* tempfile.gettempdir()

\* the name of the output file; hex is uuid4().hex
merged_output_name(file_name, hex) ==
    LET output_name == str_strip(IF file_name = <<>> THEN MergedPrefix \o hex ELSE file_name)
    IN  IF str_endswith(str_lower(output_name), DotJson)
        THEN output_name ELSE output_name \o DotJson

\* os.path.join(temp_dir, name): an absolute name replaces the directory
os_path_join(temp_dir, name) ==
    IF name /= <<>> /\ Head(name) = "/" THEN name ELSE temp_dir \o <<"/">> \o name

\* the preview: the first three merged records, the groups flattened
flat_preview(merged_payload) ==
    LET rows == IF IsList(merged_payload.l[1])
                THEN extend_all([g \in 1..Len(merged_payload.l) |-> merged_payload.l[g].l])
                ELSE merged_payload.l
    IN  JList(SubSeq(rows, 1, IF Len(rows) < 3 THEN Len(rows) ELSE 3))

\* a message is the sequence of the pieces it is formatted from
merge_summary(stats) ==
    <<"Matches: ">> \o int_str(stats.match_pairs)
        \o <<" | ", "Primary rows: ">> \o int_str(stats.primary_total)
        \o <<" (unmatched ">> \o int_str(stats.primary_only)
        \o <<") | ", "Secondary rows: ">> \o int_str(stats.secondary_total)
        \o <<" (unmatched ">> \o int_str(stats.secondary_only) \o <<").">>

\* what the handler returns or raises, and the files it wrote
HandlerError(message) ==
    [raised |-> "", path |-> JNull, message |-> message, preview |-> JNull, files |-> {}]
HandlerRaises(exception) ==
    [raised |-> exception, path |-> JNull, message |-> <<>>, preview |-> JNull, files |-> {}]

\* the write of the output file and the returned triple; write is what the
\* file system does: the file is written, open() fails, or json.dump fails
\* after the file was opened
handler_write(path, merged_output, merged_payload, stats, write) ==
    IF write = "written"
    THEN [raised |-> "", path |-> JStr(path), message |-> merge_summary(stats),
          preview |-> flat_preview(merged_payload),
          files |-> {[path |-> path, document |-> merged_output, complete |-> TRUE]}]
    ELSE [HandlerError(<<"Error writing merged file: ", write>>) EXCEPT
            !.files = IF write = "dump fails"
                      THEN {[path |-> path, document |-> merged_output, complete |-> FALSE]}
                      ELSE {}]

\* the handler after build_merged_output_container, which is called outside
\* the try blocks
handler_container(container, merged_payload, stats, file_name, hex, write) ==
    IF container.raised /= "" THEN HandlerRaises(container.raised)
    ELSE handler_write(os_path_join(TempDir, merged_output_name(file_name, hex)),
                       container.value, merged_payload, stats, write)

\* a plausible slip: the ValueError of the merge is not caught
handler_merged_uncaught(merge, primary_data, primary_root, file_name, hex, write) ==
    IF merge.raised /= "" THEN HandlerRaises("ValueError")
    ELSE IF merge.merged_payload.l = <<>> THEN HandlerError(<<"Merge produced no rows.">>)
    ELSE handler_container(
             build_merged_output_container(primary_data, primary_root, merge.merged_payload),
             merge.merged_payload, merge.stats, file_name, hex, write)

\* the handler after perform_dataset_merge; merge is what that call returned
\* or raised
handler_merged(merge, primary_data, primary_root, file_name, hex, write) ==
    IF merge.raised /= "" THEN HandlerError(<<merge.raised>>)
    ELSE IF merge.merged_payload.l = <<>> THEN HandlerError(<<"Merge produced no rows.">>)
    ELSE handler_container(
             build_merged_output_container(primary_data, primary_root, merge.merged_payload),
             merge.merged_payload, merge.stats, file_name, hex, write)

merge_datasets_handler(primary_data, secondary_data, primary_root, secondary_root, join_keys, file_name, hex, write) ==
    handler_merged(
        perform_dataset_merge(primary_data, secondary_data, root_or_sentinel(primary_root),
                              root_or_sentinel(secondary_root), handler_join_keys(join_keys)),
        primary_data, root_or_sentinel(primary_root), file_name, hex, write)

-----------------------------------------------------------------------------
(* merge_datasets_handler on two datasets, roots, join keys, a file name   *)

RecP1 == JObj(<< <<KeyId, JNum(1)>>, <<KeyX, JStr(<<"a">>)>> >>)
RecP2 == JObj(<< <<KeyId, JNum(2)>>, <<KeyX, JStr(<<"b">>)>> >>)
RecS1 == JObj(<< <<KeyId, JNum(1)>>, <<KeyY, JStr(<<"p">>)>> >>)
RecS3 == JObj(<< <<KeyId, JNum(3)>>, <<KeyY, JStr(<<"q">>)>> >>)

\* primary documents with their roots: no document, flat and grouped lists
\* with and without a match, no record, a single record, a list under a
\* root path, a root path that addresses nothing, a root path made of a
\* separator only
HandlerPrimaryInputs ==
    { [data |-> JNull, root |-> ROOT],
      [data |-> JList(<<RecP1, RecP2>>), root |-> ROOT],
      [data |-> JList(<<RecP1, RecP2>>), root |-> <<>>],
      [data |-> JList(<<RecP2>>), root |-> ROOT],
      [data |-> JList(<<>>), root |-> ROOT],
      [data |-> JNum(5), root |-> <<>>],
      [data |-> JList(<<JList(<<RecP1>>), JList(<<RecP2, RecP1>>)>>), root |-> ROOT],
      [data |-> JList(<<JList(<<RecP2>>), JList(<<>>)>>), root |-> ROOT],
      [data |-> JList(<<JList(<<>>)>>), root |-> ROOT],
      [data |-> RecP1, root |-> ROOT],
      [data |-> RecP1, root |-> <<DOT>>],
      [data |-> Obj1(KeyA, JList(<<RecP1, RecP2>>)), root |-> KeyA],
      [data |-> JObj(<< <<KeyB, JNum(7)>>, <<KeyA, JList(<<JList(<<RecP2>>), JList(<<RecP1>>)>>)>> >>),
       root |-> KeyA],
      [data |-> Obj1(KeyA, JList(<<RecP1>>)), root |-> KeyB],
      [data |-> JList(<<Obj1(KeyA, JList(<<RecP1>>))>>), root |-> KeyA] }

HandlerSecondaryInputs ==
    { [data |-> JNull, root |-> ROOT],
      [data |-> JList(<<RecS1, RecS3>>), root |-> <<>>],
      [data |-> JList(<<RecS3, RecS1, RecS1>>), root |-> ROOT],
      [data |-> JList(<<>>), root |-> ROOT],
      [data |-> Obj1(KeyA, JList(<<RecS1>>)), root |-> KeyA],
      [data |-> Obj1(KeyA, JList(<<RecS1>>)), root |-> KeyB] }

\* None, a str, a list of strs
HandlerJoinKeys ==
    { JNull, JStr(<<>>), JStr(KeyId), JList(<<>>), JList(<<JStr(<<>>)>>),
      JList(<<JStr(KeyId)>>), JList(<<JStr(<<>>), JStr(KeyId)>>) }

FileNames == { <<>>, <<"m">>, <<"M", DOT, "J", "S", "O", "N">>, <<SPACE, "m", SPACE>> }
HexNames == { <<"0", "a">>, <<"f", "1">> }
WriteOutcomes == { "written", "open fails", "dump fails" }

NoHandlerOut == [HandlerError(<<>>) EXCEPT !.raised = "not called"]

InitHandler ==
    /\ pc = "handler"
    /\ inp \in {[primary_data |-> p.data, primary_root |-> p.root,
                 secondary_data |-> s.data, secondary_root |-> s.root,
                 join_keys |-> j, file_name |-> f]
                   : p \in HandlerPrimaryInputs, s \in HandlerSecondaryInputs,
                     j \in HandlerJoinKeys, f \in FileNames}
    /\ out = NoHandlerOut

MergeDatasetsHandler ==
    /\ pc = "handler"
    /\ pc' = "handled"
    /\ \E hex \in HexNames, write \in WriteOutcomes :
          out' = merge_datasets_handler(inp.primary_data, inp.secondary_data,
                                        inp.primary_root, inp.secondary_root,
                                        inp.join_keys, inp.file_name, hex, write)
    /\ UNCHANGED inp

NextHandler == MergeDatasetsHandler

SpecHandler == InitHandler /\ [][NextHandler]_vars

\* the records a side resolves to under its root
RecordsUnder(data, root) ==
    extend_all(resolve_groups_for_merge(data, root_or_sentinel(root)).groups)

\* a merge precondition is violated by the handler's arguments
PreconditionViolated ==
    \/ IsNone(inp.primary_data)
    \/ IsNone(inp.secondary_data)
    \/ SelectSeq(handler_join_keys(inp.join_keys), LAMBDA k : k /= <<>>) = <<>>
    \/ RecordsUnder(inp.primary_data, inp.primary_root) = <<>>
    \/ RecordsUnder(inp.secondary_data, inp.secondary_root) = <<>>

PreconditionMessages ==
    { <<"Upload both datasets before merging.">>,
      <<"Select at least one join key.">>,
      <<"Select valid join keys.">>,
      <<"Primary dataset has no iterable items for the selected root path.">>,
      <<"Secondary dataset has no iterable items for the selected root path.">> }

\* C11: a merge whose precondition is violated is returned by the handler
\* as an error value (no path, an error message, no preview); nothing is
\* raised and no file is written.
C11_PreconditionErrorValue ==
    (pc = "handled" /\ PreconditionViolated) =>
        /\ out.raised = ""
        /\ out.path = JNull
        /\ out.message \in PreconditionMessages
        /\ out.preview = JNull
        /\ out.files = {}

\* the secondary root addresses nothing: zero records on that side
C11_Witness ==
    /\ pc = "handled"
    /\ inp.primary_data = JList(<<RecP1, RecP2>>)
    /\ inp.secondary_data = Obj1(KeyA, JList(<<RecS1>>))
    /\ inp.secondary_root = KeyB
    /\ inp.join_keys = JList(<<JStr(KeyId)>>)
    /\ out = HandlerError(<<"Secondary dataset has no iterable items for the selected root path.">>)

-----------------------------------------------------------------------------
(* records.py: resolve_field_value; flattening.py: flatten_data_for_export *)

str_startswith(s, prefix) ==
    Len(s) >= Len(prefix) /\ SubSeq(s, 1, Len(prefix)) = prefix

\* a plausible slip: a field outside the root is resolved against the
\* record like the others
resolve_field_value_on_record(data, item, field_path, root_path) ==
    IF IsRootSentinel(root_path) THEN get_value_by_path(item, field_path)
    ELSE IF field_path = root_path THEN item
    ELSE IF str_startswith(field_path, root_path \o <<DOT>>)
    THEN get_value_by_path(item, SubSeq(field_path, Len(root_path) + 2, Len(field_path)))
    ELSE get_value_by_path(item, field_path)

resolve_field_value(data, item, field_path, root_path) ==
    IF IsRootSentinel(root_path) THEN get_value_by_path(item, field_path)
    ELSE IF field_path = root_path THEN item
    ELSE IF str_startswith(field_path, root_path \o <<DOT>>)
    THEN get_value_by_path(item, SubSeq(field_path, Len(root_path) + 2, Len(field_path)))
    ELSE get_value_by_path(data, field_path)

\* json.dumps(value, ensure_ascii=False): the keys in the dict's own order
RECURSIVE json_dumps_unsorted(_)
json_dumps_unsorted(v) ==
    IF v.t = "null" THEN <<"n", "u", "l", "l">>
    ELSE IF v.t = "num" THEN int_str(v.n)
    ELSE IF v.t = "bool" THEN json_bool(v.b)
    ELSE IF v.t = "str" THEN json_str(v.s)
    ELSE IF v.t = "list"
    THEN <<"[">> \o str_join(<<",", SPACE>>,
                       [n \in 1..Len(v.l) |-> json_dumps_unsorted(v.l[n])])
               \o <<"]">>
    ELSE <<"{">> \o str_join(<<",", SPACE>>,
                       [n \in 1..Len(v.o) |->
                           json_str(v.o[n][1]) \o <<":", SPACE>>
                               \o json_dumps_unsorted(v.o[n][2])])
               \o <<"}">>

\* isinstance(v, (str, int, float, bool)) or v is None
IsScalarOrNone(v) == v.t \in {"str", "num", "bool", "null"}

\* "" if v is None else str(v), for such a v
element_str(v) ==
    IF v.t = "null" THEN <<>>
    ELSE IF v.t = "str" THEN v.s
    ELSE IF v.t = "num" THEN int_str(v.n)
    ELSE IF v.b THEN <<"T", "r", "u", "e">> ELSE <<"F", "a", "l", "s", "e">>

\* the value written to the row for a resolved value
export_value(val) ==
    IF IsList(val)
    THEN IF \A n \in 1..Len(val.l) : IsScalarOrNone(val.l[n])
         THEN JStr(str_join(<<",", SPACE>>, [n \in 1..Len(val.l) |-> element_str(val.l[n])]))
         ELSE JStr(json_dumps_unsorted(val))
    ELSE val

\* mapping.get(field, field); mapping is a dict from field path to name
mapping_get(mapping, field) ==
    IF \E n \in 1..Len(mapping) : mapping[n][1] = field
    THEN mapping[CHOOSE n \in 1..Len(mapping) : mapping[n][1] = field][2]
    ELSE field

\* the loop "for field in selected_fields" for one record, from field n
RECURSIVE export_row(_, _, _, _, _, _, _)
export_row(data, record, selected_fields, mapping, root_path, n, row) ==
    IF n > Len(selected_fields) THEN row
    ELSE export_row(data, record, selected_fields, mapping, root_path, n + 1,
                    dict_set(row, mapping_get(mapping, selected_fields[n]),
                             export_value(resolve_field_value(data, record,
                                                              selected_fields[n],
                                                              root_path))))

\* the rows of one row per record
export_rows(data, records, selected_fields, mapping, root_path) ==
    [r \in 1..Len(records) |->
        export_row(data, records[r], selected_fields, mapping, root_path, 1, JObj(<<>>))]

flatten_data_for_export(data, selected_fields, mapping, root_path) ==
    export_rows(data, extend_all(resolve_groups_for_merge(data, root_path).groups),
                selected_fields, mapping, root_path)

-----------------------------------------------------------------------------
(* handlers_single.py: the mapping table *)

\* default_output_name(path): the last segment, or the path itself
default_output_name(path) ==
    IF split_path(path) /= <<>> THEN split_path(path)[Len(split_path(path))] ELSE path

\* the rows [input path, output name] of update_mapping_table, as the
\* mapping they are read into
update_mapping_table(selected_fields) ==
    [n \in 1..Len(selected_fields) |->
        <<selected_fields[n], default_output_name(selected_fields[n])>>]

\* the identity Field Mapping: every output name is the input path
identity_mapping(selected_fields) ==
    [n \in 1..Len(selected_fields) |-> <<selected_fields[n], selected_fields[n]>>]

-----------------------------------------------------------------------------
(* flatten_data_for_export on a document, selected fields, a mapping and   *)
(* a root, followed by extract_all_keys on the rows                        *)

\* records: flat fields, a nested object, a list of scalars and a list with
\* an object in it, a key with a literal dot, a boolean
ExportRecords ==
    { JObj(<< <<KeyA, JNum(1)>>, <<KeyB, JStr(<<"x">>)>> >>),
      JObj(<< <<KeyA, JObj(<< <<KeyB, JNum(2)>> >>)>>, <<KeyB, JNull>> >>),
      JObj(<< <<KeyA, JList(<<JNum(1), JNull, JBool(TRUE)>>)>>,
              <<KeyB, JList(<<JObj(<< <<KeyC, JNum(3)>> >>), JNum(4)>>)>> >>),
      JObj(<< <<KeyAdotB, JNum(5)>> >>) }

\* documents and their roots: lists of records read from the document
\* itself, a list under the key a, a single record, no record
ExportInputs ==
    {[data |-> JList(l), root |-> ROOT] : l \in SeqsUpTo(ExportRecords, MaxRecs)}
        \cup {[data |-> Obj1(KeyA, JList(<<r>>)), root |-> KeyA] : r \in ExportRecords}
        \cup {[data |-> r, root |-> <<>>] : r \in ExportRecords}
        \cup {[data |-> JNull, root |-> ROOT]}

\* the field paths one can select: fields, a nested field (the same string
\* as the dotted key), the dotted key escaped, fields below the root a
ExportFields == { KeyA, KeyB, KeyAdotB, <<"a", BS, DOT, "b">>, <<"b", DOT, "c">> }

ExportSelections == SeqsUpTo(ExportFields, MaxSelected)

\* no mapping entry, the identity mapping, the default output names
ExportMappings(selected_fields) ==
    { <<>>, identity_mapping(selected_fields), update_mapping_table(selected_fields) }

NoExportOut == [rows |-> <<>>, keys |-> {}]

InitExport ==
    /\ pc = "export"
    /\ inp \in UNION {{[data |-> d.data, root_path |-> d.root, selected_fields |-> f,
                        mapping |-> m] : d \in ExportInputs, m \in ExportMappings(f)}
                         : f \in ExportSelections}
    /\ out = NoExportOut

FlattenDataForExport ==
    /\ pc = "export"
    /\ pc' = "flattened"
    /\ out' = [out EXCEPT !.rows = flatten_data_for_export(inp.data, inp.selected_fields,
                                                           inp.mapping, inp.root_path)]
    /\ UNCHANGED inp

\* the exported rows are read back as a document and its keys extracted
ExtractRowKeys ==
    /\ pc = "flattened"
    /\ pc' = "extracted"
    /\ out' = [out EXCEPT !.keys = extract_all_keys(JList(out.rows), <<>>)]
    /\ UNCHANGED inp

NextExport == FlattenDataForExport \/ ExtractRowKeys

SpecExport == InitExport /\ [][NextExport]_vars

\* the set of the selected field paths
SelectedSet == {inp.selected_fields[n] : n \in 1..Len(inp.selected_fields)}

\* C12: with the identity Field Mapping, extract_all_keys on the exported
\* rows yields exactly the set of selected field paths.
C12_ExportRoundTrip ==
    (pc = "extracted" /\ inp.mapping = identity_mapping(inp.selected_fields))
        => out.keys = SelectedSet

\* the nested field a.b is exported under the key 'a.b', whose path is a\.b
C12_Witness ==
    /\ pc = "extracted"
    /\ inp.data = JList(<<JObj(<< <<KeyA, JObj(<< <<KeyB, JNum(2)>> >>)>>, <<KeyB, JNull>> >>)>>)
    /\ inp.root_path = ROOT
    /\ inp.selected_fields = <<KeyAdotB>>
    /\ inp.mapping = <<<<KeyAdotB, KeyAdotB>>>>
    /\ out.rows = <<JObj(<< <<KeyAdotB, JNum(2)>> >>)>>
    /\ out.keys = {<<"a", BS, DOT, "b">>}

-----------------------------------------------------------------------------
(* schema_utils.py: build_tree_from_keys *)

SELF == <<"_", "_", "s", "e", "l", "f", "_", "_">>       \* '__self__'

\* sorted(keys) for a list of strs
RECURSIVE sorted_strs(_)
sorted_strs(keys) ==
    IF keys = <<>> THEN <<>>
    ELSE LET rest == sorted_strs(Tail(keys))
             key == Head(keys)
         IN  SelectSeq(rest, LAMBDA x : str_less(x, key)) \o <<key>>
                 \o SelectSeq(rest, LAMBDA x : ~str_less(x, key))

\* the node current[part] the walk moves to: created when missing, a leaf
\* turned into a branch that keeps the leaf in its self slot
tree_child(current, part) ==
    IF ~dict_has(current, part) THEN JObj(<<>>)
    ELSE IF dict_get(current, part).t = "str"
    THEN JObj(<< <<SELF, dict_get(current, part)>> >>)
    ELSE dict_get(current, part)

\* one key of the loop: the walk over parts[:-1] and the store at parts[-1]
RECURSIVE tree_insert(_, _, _)
tree_insert(current, parts, key) ==
    IF Len(parts) = 1
    THEN IF dict_has(current, parts[1])
         THEN IF IsDict(dict_get(current, parts[1]))
              THEN dict_set(current, parts[1],
                            dict_set(dict_get(current, parts[1]), SELF, JStr(key)))
              ELSE current
         ELSE dict_set(current, parts[1], JStr(key))
    ELSE dict_set(current, parts[1],
                  tree_insert(tree_child(current, parts[1]), Tail(parts), key))

\* the loop "for key in sorted(keys)", from key n
RECURSIVE tree_loop(_, _, _)
tree_loop(tree, keys, n) ==
    IF n > Len(keys) THEN tree
    ELSE tree_loop(IF split_path(keys[n]) = <<>> THEN tree
                   ELSE tree_insert(tree, split_path(keys[n]), keys[n]),
                   keys, n + 1)

build_tree_from_keys(keys) == tree_loop(JObj(<<>>), sorted_strs(keys), 1)

-----------------------------------------------------------------------------
(* build_tree_from_keys on a list of paths *)

\* paths: a field and paths below it, an unrelated field, a path below a
\* whose last segment is the reserved name, a path with an empty key in it
TreeKeys ==
    { KeyA, KeyAdotB, <<"a", DOT, "b", DOT, "c">>, KeyB, KeyA \o <<DOT>> \o SELF,
      <<"a", DOT, DOT, "b">> }

InitTree ==
    /\ pc = "tree"
    /\ inp \in [keys : SeqsUpTo(TreeKeys, MaxTreeKeys)]
    /\ out = [tree |-> JObj(<<>>)]

BuildTreeFromKeys ==
    /\ pc = "tree"
    /\ pc' = "built tree"
    /\ out' = [tree |-> build_tree_from_keys(inp.keys)]
    /\ UNCHANGED inp

NextTree == BuildTreeFromKeys

SpecTree == InitTree /\ [][NextTree]_vars

\* the node of the tree reached by the segments, null when there is none
RECURSIVE NodeAt(_, _)
NodeAt(tree, segments) ==
    IF segments = <<>> THEN tree
    ELSE IF IsDict(tree) /\ dict_has(tree, Head(segments))
    THEN NodeAt(dict_get(tree, Head(segments)), Tail(segments))
    ELSE JNull

KeySetOf(keys) == {keys[n] : n \in 1..Len(keys)}

\* the path q extends the path p by further segments
Extends(q, p) ==
    /\ Len(split_path(q)) > Len(split_path(p))
    /\ SubSeq(split_path(q), 1, Len(split_path(p))) = split_path(p)

\* the tree holds the path at its node, as a leaf or in a self slot
HeldAtNode(tree, path) ==
    LET node == NodeAt(tree, split_path(path))
    IN  \/ node = JStr(path)
        \/ IsDict(node) /\ dict_has(node, SELF) /\ dict_get(node, SELF) = JStr(path)

\* C13: a path p with an extension in the key set is a branch node whose
\* self slot holds p and below which the extensions are held; a path with no
\* extension in the key set is a leaf holding the full path string.
C13_BranchAndLeaf ==
    pc = "built tree" =>
        \A p \in KeySetOf(inp.keys) :
            LET extensions == {q \in KeySetOf(inp.keys) : Extends(q, p)}
                node == NodeAt(out.tree, split_path(p))
            IN  IF extensions /= {}
                THEN /\ IsDict(node)
                     /\ dict_has(node, SELF)
                     /\ dict_get(node, SELF) = JStr(p)
                     /\ \A q \in extensions : HeldAtNode(out.tree, q)
                ELSE node = JStr(p)

\* the extension of a whose last segment is the reserved name is not in the
\* tree
C13_Witness ==
    /\ pc = "built tree"
    /\ inp.keys = <<KeyA, KeyA \o <<DOT>> \o SELF>>
    /\ out.tree = JObj(<< <<KeyA, JObj(<< <<SELF, JStr(KeyA)>> >>)>> >>)

-----------------------------------------------------------------------------
(* handlers_single.py: export_data_handler *)

APOS == "'"

\* repr(s) for a str without a quote character in it
repr_str(s) == <<APOS>> \o str_replace(s, BS, <<BS, BS>>) \o <<APOS>>

\* str(v), which for a list or a dict is made of the repr of its parts
RECURSIVE py_repr(_)
py_repr(v) ==
    IF v.t = "null" THEN <<"N", "o", "n", "e">>
    ELSE IF v.t = "num" THEN int_str(v.n)
    ELSE IF v.t = "bool" THEN element_str(v)
    ELSE IF v.t = "str" THEN repr_str(v.s)
    ELSE IF v.t = "list"
    THEN <<"[">> \o str_join(<<",", SPACE>>, [n \in 1..Len(v.l) |-> py_repr(v.l[n])])
               \o <<"]">>
    ELSE <<"{">> \o str_join(<<",", SPACE>>,
                       [n \in 1..Len(v.o) |->
                           repr_str(v.o[n][1]) \o <<":", SPACE>> \o py_repr(v.o[n][2])])
               \o <<"}">>

\* the text the csv writer puts in a cell: '' for None, a str as it is,
\* str(v) for the rest
csv_cell(v) ==
    IF v.t = "null" THEN <<>>
    ELSE IF v.t = "str" THEN v.s
    ELSE py_repr(v)

\* DictWriter.writerows: one line per row, one cell per field name, '' for
\* a name the row does not have
csv_lines(headers, processed_rows) ==
    [r \in 1..Len(processed_rows) |->
        [n \in 1..Len(headers) |->
            IF dict_has(processed_rows[r], headers[n])
            THEN csv_cell(dict_get(processed_rows[r], headers[n])) ELSE <<>>]]

\* a plausible slip: nothing is written, the header neither, when there is no row
export_csv_without_rows(headers, processed_rows) ==
    IF processed_rows /= <<>>
    THEN [header |-> <<headers>>, lines |-> csv_lines(headers, processed_rows)]
    ELSE [header |-> <<>>, lines |-> <<>>]

\* the CSV file: writeheader(), then writerows() when there are rows; header
\* is the sequence of header lines written
export_csv(headers, processed_rows) ==
    [header |-> <<headers>>,
     lines |-> IF processed_rows /= <<>> THEN csv_lines(headers, processed_rows) ELSE <<>>]

\* dict(zip(mapping_df["Input Path"], mapping_df["Output Name"])), from row n
RECURSIVE mapping_of(_, _, _)
mapping_of(mapping_df, n, mapping) ==
    IF n > Len(mapping_df) THEN mapping
    ELSE mapping_of(mapping_df, n + 1,
                    IF \E m \in 1..Len(mapping) : mapping[m][1] = mapping_df[n][1]
                    THEN [m \in 1..Len(mapping) |->
                             IF mapping[m][1] = mapping_df[n][1] THEN mapping_df[n] ELSE mapping[m]]
                    ELSE Append(mapping, mapping_df[n]))

\* mapping_df["Input Path"].tolist()
input_paths(mapping_df) == [n \in 1..Len(mapping_df) |-> mapping_df[n][1]]

CSV == <<"C", "S", "V">>
JSON == <<"J", "S", "O", "N">>
OutputName == <<"o", "u", "t", "p", "u", "t">>

\* the name of the exported file
export_file_name(file_name, output_format) ==
    LET name == IF file_name = <<>> \/ str_strip(file_name) = <<>> THEN OutputName
                ELSE file_name
        ext == <<DOT>> \o str_lower(output_format)
    IN  IF str_endswith(str_lower(name), ext) THEN name ELSE name \o ext

ExportError(message) == [path |-> JNull, message |-> message, files |-> {}]

\* the write of the file and the returned pair; write is what the file
\* system does
export_write(path, processed_rows, mapping, selected_fields, output_format, write) ==
    IF write = "written"
    THEN [path |-> JStr(path),
          message |-> <<"Export successful! Saved to ">> \o path,
          files |-> {[path |-> path,
                      content |-> IF output_format = CSV
                                  THEN export_csv([n \in 1..Len(selected_fields) |->
                                                      mapping_get(mapping, selected_fields[n])],
                                                  processed_rows)
                                  ELSE [document |-> JList(processed_rows)]]}]
    ELSE ExportError(<<"Error during export: ", write>>)

\* the handler once the mapping is read from the table
export_mapped(data, selected_fields, mapping, output_format, file_name, root_path, write) ==
    IF selected_fields = <<>> THEN ExportError(<<"No fields selected.">>)
    ELSE export_write(os_path_join(TempDir, export_file_name(file_name, output_format)),
                      flatten_data_for_export(data, selected_fields, mapping, root_path),
                      mapping, selected_fields, output_format, write)

\* export_data_handler; mapping_df is the sequence of the rows
\* [input path, output name] of the table, empty for no table; a root_path
\* that is None is the sentinel
export_data_handler(data, mapping_df, output_format, file_name, root_path, write) ==
    IF IsNone(data) THEN ExportError(<<"No data loaded.">>)
    ELSE IF mapping_df = <<>> THEN ExportError(<<"No fields selected.">>)
    ELSE export_mapped(data, input_paths(mapping_df), mapping_of(mapping_df, 1, <<>>),
                       output_format, file_name, root_path, write)

-----------------------------------------------------------------------------
(* export_data_handler on a document, a mapping table, a format, a file    *)
(* name and a root                                                         *)

\* documents and roots: no document, no record, records at the root, a
\* list under a, a root that addresses nothing
ExportHandlerInputs ==
    { [data |-> JNull, root |-> ROOT],
      [data |-> JList(<<>>), root |-> ROOT],
      [data |-> JNum(5), root |-> <<>>],
      [data |-> Obj1(KeyA, JList(<<>>)), root |-> KeyA],
      [data |-> Obj1(KeyA, JNum(1)), root |-> KeyB],
      [data |-> Obj1(KeyA, JList(<<JObj(<< <<KeyA, JNum(1)>>, <<KeyB, JStr(<<"x">>)>> >>)>>)),
       root |-> KeyA] }
        \cup {[data |-> JList(<<r>>), root |-> ROOT] : r \in ExportRecords}
        \cup {[data |-> JList(<<r1, r2>>), root |-> <<>>] : r1, r2 \in ExportRecords}

\* selections without a repeated field
DistinctSelections ==
    {f \in ExportSelections : \A n, m \in 1..Len(f) : f[n] = f[m] => n = m}

\* the tables: the identity, the default names, one name for every field
MappingTables ==
    UNION {{identity_mapping(f), update_mapping_table(f),
            [n \in 1..Len(f) |-> <<f[n], <<"n">>>>]} : f \in DistinctSelections}

InitExportFile ==
    /\ pc = "export file"
    /\ inp \in {[data |-> d.data, root_path |-> d.root, mapping_df |-> m,
                 output_format |-> o, file_name |-> f, write |-> w]
                   : d \in ExportHandlerInputs, m \in MappingTables, o \in {CSV, JSON},
                     f \in {<<>>, <<"m">>}, w \in {"written", "open fails"}}
    /\ out = ExportError(<<>>)

ExportDataHandler ==
    /\ pc = "export file"
    /\ pc' = "exported"
    /\ out' = export_data_handler(inp.data, inp.mapping_df, inp.output_format,
                                  inp.file_name, inp.root_path, inp.write)
    /\ UNCHANGED inp

NextExportFile == ExportDataHandler

SpecExportFile == InitExportFile /\ [][NextExportFile]_vars

\* the output names of the table, in the order of its rows
OutputNames == [n \in 1..Len(inp.mapping_df) |-> inp.mapping_df[n][2]]

\* C14: a CSV export with at least one selected field writes one header row
\* made of the output names in selection order; with zero rows under the
\* root the file holds that header row and no data row.
C14_CsvHeader ==
    (/\ pc = "exported"
     /\ inp.output_format = CSV
     /\ ~IsNone(inp.data)
     /\ inp.mapping_df /= <<>>
     /\ inp.write = "written")
        => /\ out.path /= JNull
           /\ Cardinality(out.files) = 1
           /\ \A f \in out.files :
                 /\ f.path = out.path.s
                 /\ f.content.header = <<OutputNames>>
                 /\ Len(f.content.lines) = Len(RecordsUnder(inp.data, inp.root_path))

\* zero rows under the root: the header row alone
C14_Witness ==
    /\ pc = "exported"
    /\ inp.data = Obj1(KeyA, JList(<<>>))
    /\ inp.root_path = KeyA
    /\ inp.mapping_df = << <<KeyAdotB, KeyB>>, <<KeyB, KeyB>> >>
    /\ inp.output_format = CSV
    /\ out.files = {[path |-> <<"/", "t", "m", "p", "/", "m", DOT, "c", "s", "v">>,
                     content |-> [header |-> << <<KeyB, KeyB>> >>, lines |-> <<>>]]}

-----------------------------------------------------------------------------
(* schema_utils.py: find_list_paths *)

\* the paths found for the entries of a dict from entry n on, or for a list,
\* before they are sorted
RECURSIVE list_paths_of(_, _, _)
list_paths_of(data, parent_key, n) ==
    IF IsDict(data)
    THEN IF n > Len(data.o) THEN <<>>
         ELSE LET v == data.o[n][2]
                  escaped_k == escape_path_segment(data.o[n][1])
                  current_key == IF parent_key /= <<>>
                                 THEN parent_key \o <<DOT>> \o escaped_k
                                 ELSE escaped_k
                  found == IF IsList(v)
                           THEN <<current_key>> \o
                                (IF v.l /= <<>> /\ IsDict(v.l[1])
                                 THEN sorted_strs(list_paths_of(v.l[1], current_key, 1))
                                 ELSE <<>>)
                           ELSE IF IsDict(v)
                           THEN sorted_strs(list_paths_of(v, current_key, 1))
                           ELSE <<>>
              IN  found \o list_paths_of(data, parent_key, n + 1)
    ELSE IF IsList(data)
    THEN IF parent_key = <<>>
         THEN <<ROOT>> \o (IF data.l /= <<>> /\ IsDict(data.l[1])
                           THEN sorted_strs(list_paths_of(data.l[1], <<>>, 1))
                           ELSE <<>>)
         ELSE <<>>
    ELSE <<>>

find_list_paths(data, parent_key) == sorted_strs(list_paths_of(data, parent_key, 1))

-----------------------------------------------------------------------------
(* schema discovery and the root resolver on values of any shape *)

MixedScalars == {JNull, JNum(1), JStr(<<"x">>)}

\* what the outer list or object of a document holds: scalars, empty and
\* mixed lists, empty and one-field objects
MixedParts ==
    MixedScalars
        \cup {JList(<<>>), JList(<<JNum(1)>>), JList(<<JNull, Obj1(KeyB, JNum(2))>>),
              JObj(<<>>), Obj1(KeyB, JNull), Obj1(KeyB, JList(<<JStr(<<"x">>)>>))}

MixedDocs ==
    MixedParts
        \cup {JList(l) : l \in SeqsUpTo(MixedParts, MaxItems)}
        \cup {Obj1(k, v) : k \in {KeyA, KeyAdotB}, v \in MixedParts}

\* root path strings: the sentinels, paths, a separator, a lone backslash
MixedRoots == {ROOT, <<>>, KeyA, KeyAdotB, <<"a", BS, DOT, "b">>, <<DOT>>, <<BS>>}

NoShapeOut == [keys |-> {}, paths |-> <<>>, items |-> <<>>, groups |-> <<>>, grouped |-> FALSE]

InitShapes ==
    /\ pc = "value"
    /\ inp \in [data : MixedDocs, root_path : MixedRoots]
    /\ out = NoShapeOut

ExtractKeysOfValue ==
    /\ pc = "value"
    /\ pc' = "keys of value"
    /\ out' = [out EXCEPT !.keys = extract_all_keys(inp.data, <<>>)]
    /\ UNCHANGED inp

FindListPaths ==
    /\ pc = "value"
    /\ pc' = "list paths of value"
    /\ out' = [out EXCEPT !.paths = find_list_paths(inp.data, <<>>)]
    /\ UNCHANGED inp

ResolveItemsByRoot ==
    /\ pc = "value"
    /\ pc' = "items of value"
    /\ out' = [out EXCEPT !.items = resolve_items_by_root(inp.data, inp.root_path)]
    /\ UNCHANGED inp

ResolveGroupsOfValue ==
    /\ pc = "value"
    /\ pc' = "groups of value"
    /\ out' = [out EXCEPT
                 !.groups = resolve_groups_for_merge(inp.data, inp.root_path).groups,
                 !.grouped = resolve_groups_for_merge(inp.data, inp.root_path).grouped]
    /\ UNCHANGED inp

NextShapes ==
    ExtractKeysOfValue \/ FindListPaths \/ ResolveItemsByRoot \/ ResolveGroupsOfValue

SpecShapes == InitShapes /\ [][NextShapes]_vars

\* the value holds an object somewhere
RECURSIVE HasObject(_)
HasObject(v) ==
    \/ IsDict(v)
    \/ IsList(v) /\ \E n \in 1..Len(v.l) : HasObject(v.l[n])

\* the value holds a list somewhere
RECURSIVE HasList(_)
HasList(v) ==
    \/ IsList(v)
    \/ IsDict(v) /\ \E n \in 1..Len(v.o) : HasList(v.o[n][2])

\* the value is or holds a scalar or null
RECURSIVE HasLeaf(_)
HasLeaf(v) ==
    IF IsDict(v) THEN \E n \in 1..Len(v.o) : HasLeaf(v.o[n][2])
    ELSE IF IsList(v) THEN \E n \in 1..Len(v.l) : HasLeaf(v.l[n])
    ELSE TRUE

\* the value has an addressable field: a scalar or null below an object key
RECURSIVE HasField(_)
HasField(v) ==
    IF IsDict(v) THEN \E n \in 1..Len(v.o) : HasLeaf(v.o[n][2])
    ELSE IF IsList(v) THEN \E n \in 1..Len(v.l) : HasField(v.l[n])
    ELSE FALSE

\* every one of the four functions returns for the value and the root
AllReturn ==
    pc = "value" =>
        /\ ENABLED ExtractKeysOfValue
        /\ ENABLED FindListPaths
        /\ ENABLED ResolveItemsByRoot
        /\ ENABLED ResolveGroupsOfValue

-----------------------------------------------------------------------------
(* build_merged_output_container on primary documents and root paths *)

EscapedAdotB == <<"a", BS, DOT, "b">>

\* the record lists a primary document keeps under its root
ContainerNodes == {JList(<<RecP1>>), JList(<<RecP1, RecP2>>)}

\* primary documents: the records under a key, under two nested keys, under
\* a key that holds a dot, below a list, in a top-level list, and a document
\* without them
ContainerDocs ==
    {JObj(<< <<KeyA, n>>, <<KeyC, JNum(1)>> >>) : n \in ContainerNodes}
        \cup {JObj(<< <<KeyA, JObj(<< <<KeyB, n>>, <<KeyX, JNull>> >>)>>, <<KeyC, JNum(1)>> >>) : n \in ContainerNodes}
        \cup {JObj(<< <<KeyC, JNum(1)>>, <<KeyAdotB, n>> >>) : n \in ContainerNodes}
        \cup {JObj(<< <<KeyA, JList(<<JObj(<< <<KeyB, n>>, <<KeyX, JNum(2)>> >>)>>)>> >>) : n \in ContainerNodes}
        \cup {JList(<<Obj1(KeyA, n)>>) : n \in ContainerNodes}
        \cup {Obj1(KeyA, JNum(1)), Obj1(KeyC, JStr(<<"x">>))}
        \cup ContainerNodes

ContainerRoots == {ROOT, <<>>, KeyA, KeyC, KeyAdotB, EscapedAdotB, <<DOT>>}

\* merged payloads: a flat list of merged records and a list of groups
ContainerPayloads ==
    {JList(<<JObj(<< <<KeyId, JNum(1)>>, <<KeyX, JStr(<<"a">>)>>, <<KeyY, JStr(<<"p">>)>> >>)>>),
     JList(<<JList(<<RecP1>>), JList(<<>>)>>)}

InitContainer ==
    /\ pc = "merged"
    /\ inp \in [primary_data : ContainerDocs, primary_root : ContainerRoots,
                merged_items : ContainerPayloads]
    /\ out = Returned(JNull)

BuildMergedOutputContainer ==
    /\ pc = "merged"
    /\ pc' = "contained"
    /\ out' = build_merged_output_container(inp.primary_data, inp.primary_root, inp.merged_items)
    /\ UNCHANGED inp

NextContainer == BuildMergedOutputContainer

SpecContainer == InitContainer /\ [][NextContainer]_vars

\* the children of a node, in order: the values of an object, the elements
\* of a list
ChildrenOf(v) ==
    IF IsDict(v) THEN [n \in 1..Len(v.o) |-> v.o[n][2]]
    ELSE IF IsList(v) THEN v.l
    ELSE <<>>

\* the positions of the nodes of a document, as sequences of child numbers
RECURSIVE Positions(_)
Positions(v) ==
    {<<>>} \cup UNION {{<<n>> \o p : p \in Positions(ChildrenOf(v)[n])} : n \in 1..Len(ChildrenOf(v))}

RECURSIVE ValueAt(_, _)
ValueAt(v, pos) ==
    IF pos = <<>> THEN v ELSE ValueAt(ChildrenOf(v)[Head(pos)], Tail(pos))

\* the document with the node at the position replaced, all else as it is
RECURSIVE ReplaceAt(_, _, _)
ReplaceAt(v, pos, value) ==
    IF pos = <<>> THEN value
    ELSE IF IsDict(v)
    THEN JObj([v.o EXCEPT ![Head(pos)] = <<v.o[Head(pos)][1], ReplaceAt(v.o[Head(pos)][2], Tail(pos), value)>>])
    ELSE JList([v.l EXCEPT ![Head(pos)] = ReplaceAt(v.l[Head(pos)], Tail(pos), value)])

\* the positions of the nodes the records under the root were read from
ReadPositions(data, root) ==
    {pos \in Positions(data) \ {<<>>} : ValueAt(data, pos) = get_value_by_path(data, root)}

\* C16: with a non-sentinel root that addresses a node of the primary
\* document, build_merged_output_container returns the primary document with
\* that node replaced by the merged payload and every other part as in the
\* input; with the sentinel root it returns the merged payload itself.
C16_NodeReplaced ==
    pc = "contained" =>
        IF IsRootSentinel(inp.primary_root)
        THEN out = Returned(inp.merged_items)
        ELSE ReadPositions(inp.primary_data, inp.primary_root) /= {} =>
                /\ out.raised = ""
                /\ \E pos \in ReadPositions(inp.primary_data, inp.primary_root) :
                      out.value = ReplaceAt(inp.primary_data, pos, inp.merged_items)

\* the records are read from the key 'a.b'; the container gains a key 'a'
\* and keeps the records under 'a.b'
C16_Witness ==
    /\ pc = "contained"
    /\ inp.primary_root = KeyAdotB
    /\ inp.primary_data = JObj(<< <<KeyC, JNum(1)>>, <<KeyAdotB, JList(<<RecP1>>)>> >>)
    /\ get_value_by_path(inp.primary_data, inp.primary_root) = JList(<<RecP1>>)
    /\ out.raised = ""
    /\ dict_get(out.value, KeyAdotB) = JList(<<RecP1>>)
    /\ dict_get(out.value, KeyA) = Obj1(KeyB, inp.merged_items)

-----------------------------------------------------------------------------
(* the merge on documents whose objects and lists carry the name of the
   caller's document they belong to; a node built by the merge carries none *)

\* the value as a part of the caller's document named: each of its objects
\* and lists is marked as that document's node
RECURSIVE Owned(_, _)
Owned(v, document) ==
    IF IsDict(v)
    THEN [t |-> "obj", o |-> [n \in 1..Len(v.o) |-> <<v.o[n][1], Owned(v.o[n][2], document)>>],
          own |-> document]
    ELSE IF IsList(v)
    THEN [t |-> "list", l |-> [n \in 1..Len(v.l) |-> Owned(v.l[n], document)], own |-> document]
    ELSE v

\* records with nested objects and lists
NestedP1 == JObj(<< <<KeyId, JNum(1)>>, <<KeyX, Obj1(KeyQ, JNum(1))>> >>)
NestedP2 == JObj(<< <<KeyId, JNum(2)>>, <<KeyX, JNull>>, <<KeyY, JList(<<JNum(1)>>)>> >>)
NestedS1 == JObj(<< <<KeyId, JNum(1)>>, <<KeyY, Obj1(KeyQ, JList(<<JNum(2)>>))>> >>)
NestedS2 == JObj(<< <<KeyId, JNum(2)>>, <<KeyX, JList(<<Obj1(KeyQ, JNum(3))>>)>> >>)

AliasRecordLists(records) == {JList(l) : l \in SeqsUpTo(records, MaxRecs) \ {<<>>}}

\* a record list as a document, under a key, in groups, and under a key of
\* the one element of a list
AliasDocs(records) ==
    LET lists == AliasRecordLists(records)
    IN  lists
            \cup {JObj(<< <<KeyA, l>>, <<KeyC, Obj1(KeyQ, JNum(0))>> >>) : l \in lists}
            \cup {JList(<<l>>) : l \in lists}
            \cup {JList(<<Obj1(KeyA, l)>>) : l \in lists}

AliasRoots == {ROOT, KeyA}

InitAlias ==
    /\ pc = "documents"
    /\ \E p \in AliasDocs({NestedP1, NestedP2, JNum(7)}), s \in AliasDocs({NestedS1, NestedS2}) :
          inp \in [primary_data : {Owned(p, "primary")},
                   secondary_data : {Owned(s, "secondary")},
                   primary_root : AliasRoots, secondary_root : AliasRoots,
                   join_keys : {<<KeyId>>}]
    /\ out = [merge |-> [raised |-> "none yet"], container |-> Returned(JNull)]

MergeOwnedDocuments ==
    /\ pc = "documents"
    /\ pc' = "merged documents"
    /\ out' = [out EXCEPT !.merge =
                 perform_dataset_merge(inp.primary_data, inp.secondary_data,
                                       inp.primary_root, inp.secondary_root, inp.join_keys)]
    /\ UNCHANGED inp

BuildContainerOfMerge ==
    /\ pc = "merged documents"
    /\ out.merge.raised = ""
    /\ pc' = "contained documents"
    /\ out' = [out EXCEPT !.container =
                 build_merged_output_container(inp.primary_data, inp.primary_root,
                                               out.merge.merged_payload)]
    /\ UNCHANGED inp

NextAlias == MergeOwnedDocuments \/ BuildContainerOfMerge

SpecAlias == InitAlias /\ [][NextAlias]_vars

\* the objects and lists of a value
RECURSIVE NodesOf(_)
NodesOf(v) ==
    IF IsDict(v) THEN {v} \cup UNION {NodesOf(v.o[n][2]) : n \in 1..Len(v.o)}
    ELSE IF IsList(v) THEN {v} \cup UNION {NodesOf(v.l[n]) : n \in 1..Len(v.l)}
    ELSE {}

\* the node belongs to a caller's document
IsInputNode(node) == "own" \in DOMAIN node

\* C17: no object or list of the merged payload or of the output container
\* is a node of the caller's primary or secondary document, so the merge
\* wrote into no input node and a later change of the output changes no input.
C17_NoSharedNode ==
    /\ (pc \in {"merged documents", "contained documents"} /\ out.merge.raised = "") =>
          \A node \in NodesOf(out.merge.merged_payload) : ~IsInputNode(node)
    /\ (pc = "contained documents" /\ out.container.raised = "") =>
          \A node \in NodesOf(out.container.value) : ~IsInputNode(node)

\* the container holds copies of nested nodes of both documents and of a
\* part of the primary document outside the root
C17_Witness ==
    /\ pc = "contained documents"
    /\ out.container.raised = ""
    /\ inp.primary_root = KeyA
    /\ IsDict(out.container.value)
    /\ dict_get(out.container.value, KeyC) = Obj1(KeyQ, JNum(0))
    /\ Owned(Obj1(KeyQ, JNum(0)), "primary") \in NodesOf(inp.primary_data)
    /\ Obj1(KeyQ, JNum(1)) \in NodesOf(out.container.value)
    /\ Owned(Obj1(KeyQ, JNum(1)), "primary") \in NodesOf(inp.primary_data)
    /\ Obj1(KeyQ, JList(<<JNum(2)>>)) \in NodesOf(out.container.value)
    /\ Owned(Obj1(KeyQ, JList(<<JNum(2)>>)), "secondary") \in NodesOf(inp.secondary_data)

-----------------------------------------------------------------------------
(* the values of the exported rows *)

\* the row value stated for a resolved value: a list of scalars, booleans
\* and nulls joined with ', ', any other list or object as a JSON string
stated_export_value(val) ==
    IF IsList(val) /\ \A n \in 1..Len(val.l) : IsScalarOrNone(val.l[n])
    THEN JStr(str_join(<<",", SPACE>>, [n \in 1..Len(val.l) |-> element_str(val.l[n])]))
    ELSE IF IsList(val) \/ IsDict(val) THEN JStr(json_dumps_unsorted(val))
    ELSE val

\* the records the rows are made from
ExportedRecords == extend_all(resolve_groups_for_merge(inp.data, inp.root_path).groups)

\* the selected fields whose column no later selected field writes
LastWriters ==
    {n \in 1..Len(inp.selected_fields) :
        \A m \in (n + 1)..Len(inp.selected_fields) :
            mapping_get(inp.mapping, inp.selected_fields[m])
                /= mapping_get(inp.mapping, inp.selected_fields[n])}

\* C18: every value of a row of flatten_data_for_export is a scalar, a
\* null or a string: a resolved list of scalars, booleans and nulls is its
\* elements joined with ', ', every other resolved list or object is a JSON
\* string.
C18_RowValuesFlat ==
    pc = "flattened" =>
        /\ Len(out.rows) = Len(ExportedRecords)
        /\ \A r \in 1..Len(out.rows) :
              /\ \A e \in 1..Len(out.rows[r].o) : IsScalarOrNone(out.rows[r].o[e][2])
              /\ \A n \in LastWriters :
                    dict_get(out.rows[r], mapping_get(inp.mapping, inp.selected_fields[n]))
                        = stated_export_value(
                              resolve_field_value(inp.data, ExportedRecords[r],
                                                  inp.selected_fields[n], inp.root_path))

\* a selected field that holds an object: the row holds the object
C18_Witness ==
    /\ pc = "flattened"
    /\ inp.data = JList(<<JObj(<< <<KeyA, JObj(<< <<KeyB, JNum(2)>> >>)>>, <<KeyB, JNull>> >>)>>)
    /\ inp.root_path = ROOT
    /\ inp.selected_fields = <<KeyA>>
    /\ inp.mapping = <<>>
    /\ out.rows = <<Obj1(KeyA, Obj1(KeyB, JNum(2)))>>

-----------------------------------------------------------------------------
(* a field that holds null and a field that is absent *)

\* a path that addresses no field of the documents
MissingPath == <<"z">>

\* the path of the call is a key of the document, read by the walk as the
\* re-joined key, and the field holds an explicit null
AddressesNullField ==
    /\ IsDict(inp.data)
    /\ inp.path = KeyAdotB
    /\ ~dict_has(inp.data, KeyA)
    /\ dict_has(inp.data, KeyAdotB)
    /\ IsNone(dict_get(inp.data, KeyAdotB))

\* C19: the result of get_value_by_path for a path that addresses a field
\* holding an explicit null differs from its result for a path that
\* addresses no field of the same document.
C19_AbsentDistinctFromNull ==
    (pc = "returned" /\ AddressesNullField) =>
        out.val /= get_value_by_path(inp.data, MissingPath)

\* the field 'a.b' holds null, no field 'z' exists: both results are None
C19_Witness ==
    /\ pc = "returned"
    /\ AddressesNullField
    /\ ~dict_has(inp.data, MissingPath)
    /\ out.val = JNull
    /\ get_value_by_path(inp.data, MissingPath) = JNull

-----------------------------------------------------------------------------
(* schema discovery on lists of heterogeneous elements *)

\* elements of a list: objects with different keys, a nested object, a key
\* that holds a dot, a list of a scalar and an object, a scalar, a list
UnionElements ==
    { Obj1(KeyA, JNum(1)),
      Obj1(KeyB, JStr(<<"x">>)),
      JObj(<< <<KeyA, JNull>>, <<KeyC, JNum(2)>> >>),
      Obj1(KeyA, Obj1(KeyB, JNum(3))),
      Obj1(KeyAdotB, JNum(4)),
      Obj1(KeyC, JList(<<JNum(1), Obj1(KeyQ, JNull)>>)),
      JNum(5),
      JList(<<Obj1(KeyQ, JNum(6))>>) }

UnionLists == {JList(l) : l \in SeqsUpTo(UnionElements, MaxItems)}

\* a list as the document and as the value of the key a
UnionDocs == UnionLists \cup {Obj1(KeyA, l) : l \in UnionLists}

InitUnion ==
    /\ pc = "schema"
    /\ inp \in [data : UnionDocs]
    /\ out = [keys |-> {}, path |-> <<>>, val |-> JNull]

SpecUnion == InitUnion /\ [][NextSchema]_vars

\* the chains of object keys that lead to a scalar or a null of the value,
\* each below the chain segs; a list adds nothing to a chain
RECURSIVE FieldChains(_, _)
FieldChains(v, segs) ==
    IF IsDict(v) THEN UNION {FieldChains(v.o[n][2], Append(segs, v.o[n][1])) : n \in 1..Len(v.o)}
    ELSE IF IsList(v) THEN UNION {FieldChains(v.l[n], segs) : n \in 1..Len(v.l)}
    ELSE {segs}

\* the strings a list index would be written as
IndexSegments == {<<"0">>, <<"1">>, <<"2">>, <<"3">>}

\* C20: the segments of the paths extract_all_keys emits are exactly the
\* chains of object keys that lead to a scalar or null: a list adds no
\* segment (no list index appears), a scalar element of a list gives the
\* path of the list, and the elements of a list all contribute, so a list of
\* objects with different keys gives the union of their keys.
C20_ListsAddNoSegment ==
    pc \in {"extracted", "resolved"} =>
        /\ {split_path(k) : k \in out.keys} = FieldChains(inp.data, <<>>) \ {<<>>}
        /\ \A k \in out.keys :
              \A n \in 1..Len(split_path(k)) : split_path(k)[n] \notin IndexSegments
        /\ (IsList(inp.data) /\ \A n \in 1..Len(inp.data.l) : IsDict(inp.data.l[n])) =>
              out.keys = UNION {extract_all_keys(inp.data.l[n], <<>>) : n \in 1..Len(inp.data.l)}

\* the list under a holds two objects with different keys
C20_Witness ==
    /\ pc = "extracted"
    /\ inp.data = Obj1(KeyA, JList(<<Obj1(KeyA, JNum(1)), Obj1(KeyB, JStr(<<"x">>))>>))
    /\ out.keys = {<<"a", DOT, "a">>, <<"a", DOT, "b">>}

-----------------------------------------------------------------------------
(* records.py: resolve_field_value for a record of a document *)

\* the documents of the export, and documents that hold a field b beside
\* the record list under the root a
FieldInputs ==
    ExportInputs
        \cup {[data |-> JObj(<< <<KeyA, JList(l)>>, <<KeyB, JStr(<<"m">>)>> >>), root |-> KeyA]
                 : l \in SeqsUpTo(ExportRecords, MaxRecs) \ {<<>>}}

RecordsOf(data, root_path) == extend_all(resolve_groups_for_merge(data, root_path).groups)

InitField ==
    /\ pc = "field"
    /\ \E d \in FieldInputs :
          \E n \in 1..Len(RecordsOf(d.data, d.root)) :
              inp \in [data : {d.data}, root_path : {d.root},
                       item : {RecordsOf(d.data, d.root)[n]}, field_path : ExportFields]
    /\ out = [val |-> JNull]

ResolveFieldValue ==
    /\ pc = "field"
    /\ pc' = "field resolved"
    /\ out' = [val |-> resolve_field_value(inp.data, inp.item, inp.field_path, inp.root_path)]
    /\ UNCHANGED inp

NextField == ResolveFieldValue

SpecField == InitField /\ [][NextField]_vars

\* the field path is the root path, a '.', and the string rest
IsBelowRoot(field_path, root_path, rest) == field_path = root_path \o <<DOT>> \o rest

\* the strings that end the field path
Suffixes(field_path) == {SubSeq(field_path, k, Len(field_path)) : k \in 1..(Len(field_path) + 1)}

\* C21: under the sentinel root the field path is resolved against the
\* record; under another root a field path equal to the root gives the
\* record, a field path that is the root, a '.' and a rest gives the rest
\* resolved against the record, and any other field path is resolved against
\* the document and so gives one value for all records of the document.
C21_FieldResolution ==
    pc = "field resolved" =>
        IF inp.root_path \in {<<>>, ROOT}
        THEN out.val = get_value_by_path(inp.item, inp.field_path)
        ELSE /\ inp.field_path = inp.root_path => out.val = inp.item
             /\ \A rest \in Suffixes(inp.field_path) :
                   IsBelowRoot(inp.field_path, inp.root_path, rest) =>
                       out.val = get_value_by_path(inp.item, rest)
             /\ (/\ inp.field_path /= inp.root_path
                 /\ \A rest \in Suffixes(inp.field_path) :
                       ~IsBelowRoot(inp.field_path, inp.root_path, rest)) =>
                   /\ out.val = get_value_by_path(inp.data, inp.field_path)
                   /\ \A n \in 1..Len(RecordsOf(inp.data, inp.root_path)) :
                         resolve_field_value(inp.data, RecordsOf(inp.data, inp.root_path)[n],
                                             inp.field_path, inp.root_path) = out.val

\* a field of the document beside the root: the record holds another b
C21_Witness ==
    /\ pc = "field resolved"
    /\ inp.root_path = KeyA
    /\ inp.field_path = KeyB
    /\ dict_get(inp.data, KeyB) = JStr(<<"m">>)
    /\ dict_get(inp.item, KeyB) = JStr(<<"x">>)
    /\ out.val = JStr(<<"m">>)

-----------------------------------------------------------------------------
(* documents whose object keys are the strings the root resolver reserves *)

\* object keys: an ordinary key, the sentinel literal, the empty string
SentinelKeys == {KeyA, ROOT, <<>>}

SentinelValues == {JNum(1), JList(<<JNum(1)>>), JList(<<Obj1(KeyB, JNum(2))>>), Obj1(KeyB, JList(<<>>))}

SentinelObjects ==
    {JObj(<< <<k, v>>, <<KeyX, JNum(0)>> >>) : k \in SentinelKeys, v \in SentinelValues}

\* an object, and a list whose first element is the object
SentinelDocs == SentinelObjects \cup {JList(<<o>>) : o \in SentinelObjects}

InitSentinel ==
    /\ pc = "value"
    /\ inp \in [data : SentinelDocs, root_path : SentinelKeys]
    /\ out = NoShapeOut

SpecSentinel == InitSentinel /\ [][NextShapes]_vars

\* the number of entries of the sequence that the root resolver reads as
\* the sentinel
SentinelCount(paths) == Cardinality({n \in 1..Len(paths) : IsRootSentinel(paths[n])})

\* C22: no path that extract_all_keys or find_list_paths emits for a field
\* of the document is a string the root resolver treats as the sentinel:
\* extract_all_keys emits none, find_list_paths emits none for an object and
\* only the one entry for the document itself for a top-level list.
C22_SentinelReserved ==
    /\ pc = "keys of value" => \A k \in out.keys : ~IsRootSentinel(k)
    /\ pc = "list paths of value" =>
          SentinelCount(out.paths) = IF IsList(inp.data) THEN 1 ELSE 0

\* the list under the key '(root)' is reported as '(root)', which the
\* resolver reads as the whole document
C22_Witness ==
    /\ pc = "list paths of value"
    /\ inp.data = JObj(<< <<ROOT, JList(<<JNum(1)>>)>>, <<KeyX, JNum(0)>> >>)
    /\ out.paths = <<ROOT>>
    /\ resolve_items_by_root(inp.data, out.paths[1]) = <<inp.data>>

-----------------------------------------------------------------------------
(* the order and the entries of find_list_paths *)

\* the entries of a sequence
Entries(paths) == {paths[n] : n \in 1..Len(paths)}

\* C23: find_list_paths returns a sequence in strictly ascending
\* lexicographic order, so sorted and without duplicates; the sentinel is an
\* entry exactly when the document is a list; for a list whose first element
\* is an object the other entries are the list paths of that first element.
C23_SortedDistinctPaths ==
    pc = "list paths of value" =>
        /\ \A n \in 1..(Len(out.paths) - 1) : str_less(out.paths[n], out.paths[n + 1])
        /\ ROOT \in Entries(out.paths) <=> IsList(inp.data)
        /\ IsList(inp.data) =>
              Entries(out.paths) \ {ROOT} =
                  IF inp.data.l /= <<>> /\ IsDict(inp.data.l[1])
                  THEN Entries(find_list_paths(inp.data.l[1], <<>>))
                  ELSE {}

\* a list whose first element has the list field '(root)': the entry
\* '(root)' twice
C23_Witness ==
    /\ pc = "list paths of value"
    /\ inp.data = JList(<<JObj(<< <<ROOT, JList(<<JNum(1)>>)>>, <<KeyX, JNum(0)>> >>)>>)
    /\ out.paths = <<ROOT, ROOT>>

-----------------------------------------------------------------------------
(* faults that leave the merge handler *)

\* C24: merge_datasets_handler returns its (path, message, preview) for
\* every pair of documents, roots and join keys, and set_value_by_path and
\* build_merged_output_container return a value for the primary document
\* and root of the call; none of them raises.
C24_NoUnhandledFault ==
    pc = "handled" =>
        /\ out.raised = ""
        /\ set_value_by_path(inp.primary_data, inp.primary_root, JList(<<>>)).raised = ""
        /\ build_merged_output_container(inp.primary_data, inp.primary_root,
                                         JList(<<>>)).raised = ""

\* a primary root made of a separator: the record is the document, the
\* merge finds a match, and the container raises outside the try blocks
C24_Witness ==
    /\ pc = "handled"
    /\ inp.primary_data = RecP1
    /\ inp.primary_root = <<DOT>>
    /\ inp.secondary_data = JList(<<RecS1, RecS3>>)
    /\ inp.join_keys = JStr(KeyId)
    /\ out.raised = "IndexError"
    /\ out.files = {}

-----------------------------------------------------------------------------
(* flattening.py: flatten_data_for_preview *)

\* max(1, int(limit))
preview_limit(limit) == IF limit < 1 THEN 1 ELSE limit

\* a plausible slip: the limit is compared with > in place of >=, so one
\* row more than the limit is returned
RECURSIVE preview_records_over(_, _, _, _, _, _, _, _)
preview_records_over(rows, data, group, n, selected_fields, mapping, root_path, limit) ==
    IF n > Len(group) THEN [rows |-> rows, returned |-> FALSE]
    ELSE IF Len(rows) + 1 > preview_limit(limit)
    THEN [rows |-> Append(rows, export_row(data, group[n], selected_fields, mapping, root_path, 1, JObj(<<>>))),
          returned |-> TRUE]
    ELSE preview_records_over(
             Append(rows, export_row(data, group[n], selected_fields, mapping, root_path, 1, JObj(<<>>))),
             data, group, n + 1, selected_fields, mapping, root_path, limit)

\* the loop "for record in group" from record n: the rows so far, and
\* whether the function returned inside the loop
RECURSIVE preview_records(_, _, _, _, _, _, _, _)
preview_records(rows, data, group, n, selected_fields, mapping, root_path, limit) ==
    IF n > Len(group) THEN [rows |-> rows, returned |-> FALSE]
    ELSE IF Len(rows) + 1 >= preview_limit(limit)
    THEN [rows |-> Append(rows, export_row(data, group[n], selected_fields, mapping, root_path, 1, JObj(<<>>))),
          returned |-> TRUE]
    ELSE preview_records(
             Append(rows, export_row(data, group[n], selected_fields, mapping, root_path, 1, JObj(<<>>))),
             data, group, n + 1, selected_fields, mapping, root_path, limit)

\* the result of the loop over the records of group g, then the later groups
RECURSIVE preview_after(_, _, _, _, _, _, _, _)
preview_after(done, data, groups, g, selected_fields, mapping, root_path, limit) ==
    IF done.returned \/ g >= Len(groups) THEN done.rows
    ELSE preview_after(
             preview_records(done.rows, data, groups[g + 1], 1, selected_fields, mapping, root_path, limit),
             data, groups, g + 1, selected_fields, mapping, root_path, limit)

flatten_data_for_preview(data, selected_fields, mapping, root_path, limit) ==
    IF IsNone(data) \/ selected_fields = <<>> THEN <<>>
    ELSE preview_after([rows |-> <<>>, returned |-> FALSE], data,
                       resolve_groups_for_merge(data, root_path).groups, 0,
                       selected_fields, mapping, root_path, limit)

-----------------------------------------------------------------------------
(* the preview and the export of the same document, fields and mapping *)

PreviewRecords ==
    { JObj(<< <<KeyA, JNum(1)>>, <<KeyB, JStr(<<"x">>)>> >>),
      JObj(<< <<KeyA, JList(<<JNum(1), JNull>>)>>, <<KeyB, Obj1(KeyC, JNum(3))>> >>),
      JObj(<< <<KeyB, JNum(2)>> >>) }

PreviewLists == SeqsUpTo(PreviewRecords, MaxRecs)

\* no document, flat lists, lists under the key a, lists of two groups
PreviewInputs ==
    {[data |-> JNull, root |-> ROOT]}
        \cup {[data |-> JList(l), root |-> r] : l \in PreviewLists, r \in {ROOT, <<>>}}
        \cup {[data |-> Obj1(KeyA, JList(l)), root |-> KeyA] : l \in PreviewLists}
        \cup {[data |-> JList(<<JList(l), JList(k)>>), root |-> ROOT]
                 : l \in PreviewLists,
                   k \in {<<>>, <<JObj(<< <<KeyA, JNum(9)>> >>)>>}}

PreviewSelections == SeqsUpTo({KeyA, KeyB, KeyAdotB}, MaxSelected)

InitPreview ==
    /\ pc = "preview"
    /\ inp \in UNION {{[data |-> d.data, root_path |-> d.root, selected_fields |-> f,
                        mapping |-> m, limit |-> n]
                          : d \in PreviewInputs, m \in {<<>>, update_mapping_table(f)},
                            n \in 0..MaxLimit}
                         : f \in PreviewSelections}
    /\ out = [rows |-> <<>>]

FlattenDataForPreview ==
    /\ pc = "preview"
    /\ pc' = "previewed"
    /\ out' = [rows |-> flatten_data_for_preview(inp.data, inp.selected_fields, inp.mapping,
                                                 inp.root_path, inp.limit)]
    /\ UNCHANGED inp

NextPreview == FlattenDataForPreview

SpecPreview == InitPreview /\ [][NextPreview]_vars

\* the rows of the export for the arguments of the preview
ExportOfPreview ==
    flatten_data_for_export(inp.data, inp.selected_fields, inp.mapping, inp.root_path)

\* C25: for a non-empty list of selected fields and a limit n >= 1 the
\* preview is the first min(n, number of records) rows of the export, in the
\* same order and with equal values.
C25_PreviewIsExportPrefix ==
    (pc = "previewed" /\ inp.selected_fields /= <<>> /\ inp.limit >= 1) =>
        /\ Len(out.rows) = IF inp.limit < Len(RecordsOf(inp.data, inp.root_path))
                           THEN inp.limit
                           ELSE Len(RecordsOf(inp.data, inp.root_path))
        /\ Len(out.rows) <= Len(ExportOfPreview)
        /\ \A r \in 1..Len(out.rows) : out.rows[r] = ExportOfPreview[r]

\* two groups with three records, a limit of two: the preview ends in the
\* first group
C25_Witness ==
    /\ pc = "previewed"
    /\ inp.limit = 2
    /\ inp.selected_fields = <<KeyA, KeyB>>
    /\ inp.mapping = <<>>
    /\ inp.data = JList(<<JList(<<JObj(<< <<KeyB, JNum(2)>> >>),
                                  JObj(<< <<KeyA, JNum(1)>>, <<KeyB, JStr(<<"x">>)>> >>)>>),
                          JList(<<JObj(<< <<KeyA, JNum(9)>> >>)>>)>>)
    /\ Len(ExportOfPreview) = 3
    /\ out.rows = << JObj(<< <<KeyA, JNull>>, <<KeyB, JNum(2)>> >>),
                     JObj(<< <<KeyA, JNum(1)>>, <<KeyB, JStr(<<"x">>)>> >>) >>

-----------------------------------------------------------------------------
(* the merge of one primary record with one secondary record, by join keys *)

ObjAB == JObj(<< <<KeyA, JNum(1)>>, <<KeyB, JNum(2)>> >>)
ObjBA == JObj(<< <<KeyB, JNum(2)>>, <<KeyA, JNum(1)>> >>)

\* values of the join field: numbers, booleans, strings with and without
\* padding, null, an object in two key orders, a list
JoinValues ==
    { JNum(0), JNum(1), JBool(TRUE), JBool(FALSE), JNull,
      JStr(<<"k">>), JStr(<<SPACE, "k">>), JStr(<<"k", SPACE>>), JStr(<<"K">>),
      ObjAB, ObjBA, JList(<<JNum(1)>>) }

\* records with the join field id, and one without it
JoinRecords == {Obj1(KeyId, v) : v \in JoinValues} \cup {Obj1(KeyX, JNum(1))}

\* the primary record as the one element of the document, or under the
\* root a of a document that has its own id
JoinPrimaryDocs(record) ==
    { [data |-> JList(<<record>>), root |-> ROOT],
      [data |-> JObj(<< <<KeyA, JList(<<record>>)>>, <<KeyId, JStr(<<"k">>)>> >>), root |-> KeyA] }

InitJoin ==
    /\ pc = "join"
    /\ \E p \in JoinRecords, s \in JoinRecords :
          inp \in [primary_record : {p}, secondary_record : {s},
                   primary : JoinPrimaryDocs(p),
                   join_keys : {<<KeyId>>, <<KeyId, KeyX>>}]
    /\ out = Raised("")

JoinRecordPair ==
    /\ pc = "join"
    /\ pc' = "joined"
    /\ out' = perform_dataset_merge(inp.primary.data, JList(<<inp.secondary_record>>),
                                    inp.primary.root, ROOT, inp.join_keys)
    /\ UNCHANGED inp

NextJoin == JoinRecordPair

SpecJoin == InitJoin /\ [][NextJoin]_vars

\* the normal form of a join value: a string trimmed, an object or a list
\* as its key-sorted JSON text, any other scalar itself
NormalForm(value) ==
    IF value.t = "str" THEN JStr(str_strip(value.s))
    ELSE IF IsDict(value) \/ IsList(value) THEN JStr(json_dumps(value))
    ELSE value

\* the two records have equal normal forms of the value of every join path,
\* each resolved against the record
EqualJoinValues ==
    \A n \in 1..Len(inp.join_keys) :
        NormalForm(get_value_by_path(inp.primary_record, inp.join_keys[n]))
            = NormalForm(get_value_by_path(inp.secondary_record, inp.join_keys[n]))

\* C26: a primary and a secondary record are matched exactly when, for
\* every join path resolved against the record itself, their values are
\* equal after normalization: strings trimmed, objects in key-sorted form,
\* other scalars unchanged.
C26_MatchIffNormalEqual ==
    pc = "joined" =>
        /\ out.raised = ""
        /\ out.stats.match_pairs = 1 <=> EqualJoinValues

\* the primary id is true, the secondary id is 1: the records are merged
C26_Witness ==
    /\ pc = "joined"
    /\ inp.primary_record = Obj1(KeyId, JBool(TRUE))
    /\ inp.secondary_record = Obj1(KeyId, JNum(1))
    /\ inp.join_keys = <<KeyId>>
    /\ out.raised = ""
    /\ out.stats.match_pairs = 1
    /\ out.merged_payload = JList(<<Obj1(KeyId, JBool(TRUE))>>)

-----------------------------------------------------------------------------
(* the merge of records that lack the join field or hold null in it *)

AbsentPrimaryRecs ==
    { JObj(<< <<KeyId, JNum(1)>>, <<KeyX, JStr(<<"a">>)>> >>),
      JObj(<< <<KeyX, JStr(<<"b">>)>> >>),
      JObj(<< <<KeyId, JNull>>, <<KeyX, JStr(<<"c">>)>> >>) }

AbsentSecondaryRecs ==
    { JObj(<< <<KeyId, JNum(1)>>, <<KeyY, JStr(<<"p">>)>> >>),
      JObj(<< <<KeyY, JStr(<<"q">>)>> >>),
      JObj(<< <<KeyId, JNull>>, <<KeyY, JStr(<<"r">>)>> >>) }

InitAbsent ==
    /\ pc = "merge"
    /\ inp \in {[primary_data |-> JList(p), primary_root |-> ROOT,
                 secondary_data |-> JList(s), secondary_root |-> ROOT, join_keys |-> j]
                   : p \in SeqsUpTo(AbsentPrimaryRecs, MaxRecs),
                     s \in SeqsUpTo(AbsentSecondaryRecs, MaxRecs),
                     j \in {<<KeyId>>, <<KeyId, KeyQ>>}}
    /\ out = Raised("")

SpecAbsent == InitAbsent /\ [][NextMerge]_vars

\* every join path resolves to absent or null in the record
AllJoinValuesMissing(record) ==
    \A n \in 1..Len(JoinPaths) : IsNone(get_value_by_path(record, JoinPaths[n]))

\* the merged records of one primary record whose join values are all
\* missing: one per secondary record whose join values are all missing
MissingJoin(record) ==
    LET partners == SelectSeq(SecondaryStream, AllJoinValuesMissing)
    IN  [m \in 1..Len(partners) |-> build_merged_record(record, partners[m])]

\* C27: a primary record whose join paths all resolve to absent or null is
\* merged with exactly the secondary records whose join paths all resolve
\* to absent or null, in their order; the other primary records are merged
\* with the secondary records of equal join-key tuple.
C27_MissingValuesJoin ==
    Merged =>
        PayloadRows =
            extend_all([n \in 1..Len(PrimaryStream) |->
                          IF AllJoinValuesMissing(PrimaryStream[n])
                          THEN MissingJoin(PrimaryStream[n])
                          ELSE InnerJoin(<<PrimaryStream[n]>>)])

\* a primary record without id, secondary records without id and with a
\* null id: two merged records
C27_Witness ==
    /\ Merged
    /\ inp.join_keys = <<KeyId>>
    /\ inp.primary_data = JList(<<JObj(<< <<KeyX, JStr(<<"b">>)>> >>)>>)
    /\ inp.secondary_data = JList(<<JObj(<< <<KeyY, JStr(<<"q">>)>> >>),
                                    JObj(<< <<KeyId, JNull>>, <<KeyY, JStr(<<"r">>)>> >>)>>)
    /\ out.merged_payload =
          JList(<<JObj(<< <<KeyX, JStr(<<"b">>)>>, <<KeyY, JStr(<<"q">>)>> >>),
                  JObj(<< <<KeyX, JStr(<<"b">>)>>, <<KeyId, JNull>>, <<KeyY, JStr(<<"r">>)>> >>)>>)

-----------------------------------------------------------------------------
(* the handler when the merge matches no pair of records *)

\* what perform_dataset_merge returns for the arguments of the handler
MergeOfHandler ==
    perform_dataset_merge(inp.primary_data, inp.secondary_data,
                          root_or_sentinel(inp.primary_root),
                          root_or_sentinel(inp.secondary_root),
                          handler_join_keys(inp.join_keys))

\* C28: when the merge returns with match_pairs = 0, for a flat and for a
\* grouped primary root, merge_datasets_handler returns no path and the
\* message 'Merge produced no rows.' and writes no file.
C28_NoRowsMessage ==
    (pc = "handled" /\ MergeOfHandler.raised = "" /\ MergeOfHandler.stats.match_pairs = 0) =>
        /\ out.raised = ""
        /\ out.path = JNull
        /\ out.message = <<"Merge produced no rows.">>
        /\ out.files = {}

\* a grouped primary root without a match: a file with the empty groups
C28_Witness ==
    /\ pc = "handled"
    /\ inp.primary_data = JList(<<JList(<<RecP2>>), JList(<<>>)>>)
    /\ MergeOfHandler.raised = ""
    /\ MergeOfHandler.stats.match_pairs = 0
    /\ out.raised = ""
    /\ out.path /= JNull
    /\ \E f \in out.files : f.document = JList(<<JList(<<>>), JList(<<>>)>>)

-----------------------------------------------------------------------------
(* schema discovery and value resolution on documents whose object keys are
   empty, hold a dot or end in a backslash; every leaf is non-null *)

AddressKeys == {KeyA, <<>>, KeyAdotB, <<"a", BS>>}
AddressLeaves == {JNum(1), JList(<<JNum(1), JNum(2)>>)}
AddressValues == AddressLeaves \cup {Obj1(k, v) : k \in AddressKeys, v \in AddressLeaves}
AddressDocs ==
    {JObj(o) : o \in EntriesUpTo({<<k, v>> : k \in AddressKeys, v \in AddressValues}, MaxKeys)}

InitAddress ==
    /\ pc = "schema"
    /\ inp \in [data : AddressDocs]
    /\ out = [keys |-> {}, path |-> <<>>, val |-> JNull]

SpecAddress == InitAddress /\ [][NextSchema]_vars

\* the chains of object keys that lead to a leaf of the value, each with
\* the leaf
RECURSIVE LeavesAt(_, _)
LeavesAt(v, segs) ==
    IF IsDict(v) THEN UNION {LeavesAt(v.o[n][2], Append(segs, v.o[n][1])) : n \in 1..Len(v.o)}
    ELSE {[chain |-> segs, leaf |-> v]}

\* the path string of a chain of keys: the keys escaped and joined by '.'
PathOfChain(chain) ==
    str_join(<<DOT>>, [n \in 1..Len(chain) |-> escape_path_segment(chain[n])])

\* C29: for a document whose leaves are all non-null, get_value_by_path
\* with a path emitted by extract_all_keys returns a value that is not None
\* and is the leaf at a chain of keys which that path names, also for keys
\* that are empty or hold a '.' or a '\'.
C29_EmittedPathsAddressable ==
    pc = "resolved" =>
        /\ ~IsNone(out.val)
        /\ \E at \in LeavesAt(inp.data, <<>>) :
              /\ PathOfChain(at.chain) = out.path
              /\ at.leaf = out.val

\* the key is the empty string: the path emitted is '', and the value
\* resolved for it is the document
C29_Witness ==
    /\ pc = "resolved"
    /\ inp.data = Obj1(<<>>, JNum(1))
    /\ out.keys = {<<>>}
    /\ out.path = <<>>
    /\ out.val = inp.data

-----------------------------------------------------------------------------
(* build_tree_from_keys on the key set extract_all_keys returns for a
   document *)

\* object keys: ordinary keys, the reserved name of the self slot, the
\* empty string
TreeDocKeys == {KeyA, KeyB, SELF, <<>>}

\* a leaf, an object with one leaf, a list of a scalar and an object (its
\* path and an extension of it are both emitted)
TreeDocValues ==
    {JNum(1)}
        \cup {Obj1(k, JNum(2)) : k \in TreeDocKeys}
        \cup {JList(<<JNum(1), Obj1(k, JNum(2))>>) : k \in TreeDocKeys}

TreeDocs ==
    {JObj(o) : o \in EntriesUpTo({<<k, v>> : k \in TreeDocKeys, v \in TreeDocValues}, MaxKeys)}

InitDocTree ==
    /\ pc = "document"
    /\ inp \in [data : TreeDocs]
    /\ out = [keys |-> {}, tree |-> JObj(<<>>)]

ExtractKeysOfDocument ==
    /\ pc = "document"
    /\ pc' = "keys of document"
    /\ out' = [out EXCEPT !.keys = extract_all_keys(inp.data, <<>>)]
    /\ UNCHANGED inp

\* the key set as the list given to build_tree_from_keys, which sorts it
ListOfKeys(keys) ==
    CHOOSE l \in [1..Cardinality(keys) -> keys] : {l[n] : n \in 1..Cardinality(keys)} = keys

BuildTreeOfKeys ==
    /\ pc = "keys of document"
    /\ pc' = "tree of document"
    /\ out' = [out EXCEPT !.tree = build_tree_from_keys(ListOfKeys(out.keys))]
    /\ UNCHANGED inp

NextDocTree == ExtractKeysOfDocument \/ BuildTreeOfKeys

SpecDocTree == InitDocTree /\ [][NextDocTree]_vars

\* the path strings the tree holds, as leaves and in self slots, one entry
\* per place
RECURSIVE HeldPaths(_)
HeldPaths(node) ==
    IF IsDict(node)
    THEN extend_all([n \in 1..Len(node.o) |-> HeldPaths(node.o[n][2])])
    ELSE <<node.s>>

\* C30: for the key set K of a document, every path of K is held by the
\* tree at the node its segments lead to, as a leaf or in the self slot of
\* a branch, the tree holds as many paths as K has, and none outside K.
C30_TreeHoldsAllPaths ==
    pc = "tree of document" =>
        /\ \A p \in out.keys : HeldAtNode(out.tree, p)
        /\ Len(HeldPaths(out.tree)) = Cardinality(out.keys)
        /\ {HeldPaths(out.tree)[n] : n \in 1..Len(HeldPaths(out.tree))} = out.keys

\* the list under a holds a scalar and an object with the key '__self__':
\* the tree holds 'a' in the self slot and not 'a.__self__'
C30_Witness ==
    /\ pc = "tree of document"
    /\ inp.data = Obj1(KeyA, JList(<<JNum(1), Obj1(SELF, JNum(2))>>))
    /\ out.keys = {KeyA, KeyA \o <<DOT>> \o SELF}
    /\ out.tree = Obj1(KeyA, Obj1(SELF, JStr(KeyA)))

=============================================================================
